---- MODULE Spec2Model ----
(***************************************************************************)
(* Letter lifecycle of notifications-api (app/celery/letters_pdf_tasks.py): *)
(* the batch constructor group_letters, and the celery tasks that move a    *)
(* letter's PDF between buckets while updating the notification's status.   *)
(***************************************************************************)
EXTENDS Integers, Sequences, FiniteSets, TLC

VARIABLES
    \* ---- group_letters (the batch constructor) ----
    letter_pdfs,        \* the argument: a list of {Key, Size, ServiceId}
    max_filesize,       \* current_app.config['MAX_LETTER_PDF_ZIP_FILESIZE']
    max_count,          \* current_app.config['MAX_LETTER_PDF_COUNT_PER_ZIP']
    g_pc,               \* "idle" (not called) | "loop" | "done": position of the generator
    g_i,                \* index of the next letter of the for loop
    running_filesize,   \* local of group_letters
    list_of_files,      \* local of group_letters
    service_id,         \* local of group_letters
    yielded             \* the groups yielded so far, in order

groupVars == <<letter_pdfs, max_filesize, max_count, g_pc, g_i,
               running_filesize, list_of_files, service_id, yielded>>

VARIABLES
    \* ---- the PDF lifecycle tasks ----
    letter_kind,        \* "templated" | "precompiled": how the letter was created
    notification,       \* the notification's row in the store
    s3,                 \* the stored objects: a set of <<bucket, key>>
    sanitise_data,      \* the decrypted payload of the scan-result callback
    tasks,              \* the celery messages and the position of their execution
    others,             \* the other notifications that carry the same reference
    scan_reference      \* the reference in the filename of the scan-failure callback

taskVars == <<letter_kind, notification, s3, sanitise_data, tasks, others, scan_reference>>

VARIABLES
    \* ---- collate_letter_pdfs_to_be_sent ----
    letters_awaiting_sending, \* dao_get_letters_to_be_printed, for each postage class
    utcnow,             \* the local time of the run: convert_utc_to_bst(datetime.utcnow())
    c_run,              \* the number of runs started
    c_pc,               \* position of the run
    c_postage,          \* index in POSTAGE_TYPES of the class being processed
    c_heads,            \* the outcome of head_s3_object for each letter of the class
    c_emitted,          \* i of enumerate: the groups of the class consumed so far
    sent,               \* the zip-and-send-letter-pdfs tasks sent by the run, in order
    history             \* what each completed pass over a postage class produced

collateVars == <<letters_awaiting_sending, utcnow, c_run, c_pc, c_postage,
                 c_heads, c_emitted, sent, history>>

VARIABLES
    \* ---- update_billable_units_for_letter ----
    ubu_pc,             \* "idle" | "queued" | "done" | "raised": position of the task
    ubu_page_count,     \* the argument page_count
    \* ---- replay_letters_in_error ----
    antivirus_enabled,  \* current_app.config['ANTIVIRUS_ENABLED']
    r_filename,         \* the argument filename (None: every file of the error bucket)
    r_pc,               \* "idle" | "start" | "move" | "submit" | "done" | "raised"
    r_items,            \* error_files: the listing of the error bucket
    r_k,                \* index of the item of the for loop
    submitted,          \* the tasks submitted, in order: [task, filename]
    \* ---- the sequence field of the archive names ----
    q_groups,           \* how many groups group_letters yields for each postage class
    q_pc,               \* "idle" | "loop" | "done"
    q_postage,          \* index in POSTAGE_TYPES of the class being processed
    q_i,                \* i of enumerate
    q_fields,           \* the sequence fields of the names built for the class, in order
    \* ---- the print-run deadline ----
    clock,              \* datetime.utcnow(), in minutes
    print_run_deadline, \* the local variable of that name (NoDeadline before it is computed)
    \* ---- CBCProxyClientBase._invoke_lambda_with_failover ----
    proxy               \* the call: its client class, payload, position and invocations

opsVars == <<ubu_pc, ubu_page_count, antivirus_enabled, r_filename, r_pc, r_items,
             r_k, submitted, q_groups, q_pc, q_postage, q_i, q_fields, clock,
             print_run_deadline, proxy>>

vars == <<groupVars, taskVars, collateVars, opsVars>>

\* ------------------------------------------------------------------------
\* Bounds of the model
\* ------------------------------------------------------------------------
MaxLetters == 3
\* The letters waiting to be printed: of the first postage class, and of
\* each later one.
MaxAwaiting == 2
MaxAwaitingLater == 1

\* ------------------------------------------------------------------------
\* group_letters
\* ------------------------------------------------------------------------
None == "None"

\* Object keys are sequences of characters.
KeyPdfMixed == <<"a", ".", "P", "d", "F">>
KeyPdfLower == <<"b", ".", "p", "d", "f">>
KeyOther == <<"c", ".", "t", "x", "t">>
Keys == {KeyPdfMixed, KeyPdfLower, KeyOther}
Sizes == {1, 2}
ServiceIds == {"svcA", "svcB"}
FileSizeCaps == {1, 2}
CountCaps == {1, 2}

Letters == [Key : Keys, Size : Sizes, ServiceId : ServiceIds]

LowerChar(c) ==
    CASE c = "P" -> "p"
      [] c = "D" -> "d"
      [] c = "F" -> "f"
      [] OTHER -> c

\* str.lower()
Lower(s) == [i \in 1..Len(s) |-> LowerChar(s[i])]

\* str.endswith(suffix)
EndsWith(s, suffix) ==
    /\ Len(s) >= Len(suffix)
    /\ SubSeq(s, Len(s) - Len(suffix) + 1, Len(s)) = suffix

\* The test of the key without lower().
IsPdfKey_CaseSensitive(key) == EndsWith(key, <<".", "p", "d", "f">>)

IsPdfKey(key) == EndsWith(Lower(key), <<".", "p", "d", "f">>)

\* "if not service_id: service_id = letter['ServiceId']"
ServiceIdOrLetters(sid, letter) == IF sid = None THEN letter.ServiceId ELSE sid

\* StartsNewGroup without the comparison of services.
StartsNewGroup_NoServiceCheck(letter, running, files, sid) ==
    \/ running + letter.Size > max_filesize
    \/ Len(files) >= max_count

\* The condition of the if statement that yields the running group.
StartsNewGroup(letter, running, files, sid) ==
    \/ running + letter.Size > max_filesize
    \/ Len(files) >= max_count
    \/ letter.ServiceId # sid

\* A list of four letters for group_letters: three of one service with sizes
\* 10, 10 and 5, then one of size 5 of another service.
ExampleLetters ==
    << [Key |-> KeyPdfMixed, Size |-> 10, ServiceId |-> "svcA"],
       [Key |-> KeyPdfLower, Size |-> 10, ServiceId |-> "svcA"],
       [Key |-> KeyPdfMixed, Size |-> 5, ServiceId |-> "svcA"],
       [Key |-> KeyPdfLower, Size |-> 5, ServiceId |-> "svcB"] >>

RECURSIVE SumSizes(_)
SumSizes(group) ==
    IF group = <<>> THEN 0 ELSE group[1].Size + SumSizes(Tail(group))

\* ------------------------------------------------------------------------
\* The notification store and the object store
\* ------------------------------------------------------------------------
NOTIFICATION_CREATED == "created"
NOTIFICATION_DELIVERED == "delivered"
NOTIFICATION_PENDING_VIRUS_CHECK == "pending-virus-check"
NOTIFICATION_TECHNICAL_FAILURE == "technical-failure"
NOTIFICATION_VALIDATION_FAILED == "validation-failed"
NOTIFICATION_VIRUS_SCAN_FAILED == "virus-scan-failed"

KEY_TYPE_NORMAL == "normal"
KEY_TYPE_TEST == "test"

INTERNATIONAL_POSTAGE_TYPES == {"europe", "rest-of-world"}

\* The buckets (the logical locations of a letter's PDF).
ScanBucket == "scan-intake"
SanitiseBucket == "sanitise-intake"
InvalidBucket == "invalid-archive"
LettersPdfBucket == "final-archive-live"
TestLettersBucket == "final-archive-test"
ErrorBucket == "error-archive"
FinalBuckets == {LettersPdfBucket, TestLettersBucket}

\* The filename of the callback: the key of the upload in scan-intake.
Filename == "NOTIFY.REF.D.2.C.pdf"

\* Recipient addresses a callback carries: none, a UK one, a European one.
NoAddress == "None"
Addresses == {NoAddress, "1 Street, London, SW1 1AA", "1 Rue, Paris, France"}

\* PostalAddress(raw_address).postage
PostalAddressPostage(address) ==
    IF address = "1 Rue, Paris, France" THEN "europe" ELSE "united-kingdom"

\* The page counts a callback carries, and the page-count -> units table
\* (a sheet holds two pages).
PageCounts == {3}
get_billable_units_for_letter_page_count(page_count) == (page_count + 1) \div 2

\* get_letter_pdf_filename: the key derived from reference, crown, created_at
\* and postage (the first three are fixed for the one notification).
get_letter_pdf_filename(postage) ==
    CASE postage = "first" -> "NOTIFY.REF.D.1.C.20200101.PDF"
      [] postage = "second" -> "NOTIFY.REF.D.2.C.20200101.PDF"
      [] postage = "europe" -> "NOTIFY.REF.D.E.C.20200101.PDF"
      [] OTHER -> "NOTIFY.REF.D.N.C.20200101.PDF"

\* update_notification_status_by_id: sets the status of the notification.
update_notification_status_by_id(n, status) == [n EXCEPT !.status = status]

\* update_letter_pdf_status keeping whatever postage the address gives.
update_letter_pdf_status_PersistsDerived(n, status, billable_units, recipient_address) ==
    LET n1 == [n EXCEPT !.status = status, !.billable_units = billable_units]
    IN IF recipient_address # NoAddress
       THEN [n1 EXCEPT !.postage = PostalAddressPostage(recipient_address),
                       !.international = TRUE,
                       !.to = recipient_address]
       ELSE n1

\* update_letter_pdf_status, with dao_update_notifications_by_reference
\* applying update_dict to the notification of that reference.
update_letter_pdf_status(n, status, billable_units, recipient_address) ==
    LET derived == IF recipient_address # NoAddress
                   THEN PostalAddressPostage(recipient_address) ELSE None
        postage == IF derived \in INTERNATIONAL_POSTAGE_TYPES THEN derived ELSE None
        n1 == [n EXCEPT !.status = status, !.billable_units = billable_units]
        n2 == IF postage # None
              THEN [n1 EXCEPT !.postage = postage, !.international = TRUE]
              ELSE n1
    IN IF recipient_address # NoAddress THEN [n2 EXCEPT !.to = recipient_address] ELSE n2

\* The reference of the notification, and a reference that no notification has.
Reference == "REF"
NoSuchReference == "NOREF"

\* update_letter_pdf_status on each of the rows that carry the reference.
UpdateRows(rows, status, billable_units, recipient_address) ==
    [i \in 1..Len(rows) |->
        update_letter_pdf_status(rows[i], status, billable_units, recipient_address)]

\* A move of the object store: copy src to dst, then delete src.
\*   "ok":      both done;   "partial": copied, src not deleted (an error);
\*   "nothing": the copy failed (an error).
S3Move(objects, src, dst, outcome) ==
    CASE outcome = "ok" -> (objects \cup {dst}) \ {src}
      [] outcome = "partial" -> objects \cup {dst}
      [] OTHER -> objects

\* ------------------------------------------------------------------------
\* The celery tasks
\* ------------------------------------------------------------------------
PslIds == {"psl1", "psl2"}
ScanFailId == "scanfail"
RenderId == "render"
SanitiseId == "sanitise"
TaskIds == PslIds \cup {ScanFailId, RenderId, SanitiseId}

\* max_retries of the task decorators.
max_retries == 15

\* The task a message names.
TaskName(t) ==
    CASE t \in PslIds -> {"process-sanitised-letter"}
      [] t = RenderId -> {"get-pdf-for-templated-letter"}
      [] t = ScanFailId -> {"process-virus-scan-failed", "process-virus-scan-error"}
      [] t = SanitiseId -> {"sanitise-letter"}

\* A message that is not there.
NoTask == [name |-> "none", pc |-> "none", retries |-> 0, seen |-> None, effects |-> {}]
\* A message waiting for a worker; retries is the message's retry count, seen
\* the status of the notification its execution loaded, effects what its
\* execution has done so far.
Queued(name, retries) ==
    [name |-> name, pc |-> "queued", retries |-> retries, seen |-> None, effects |-> {}]

FinalPcs == {"none", "returned", "returned_noop", "raised_uncaught",
             "raised_technical_failure", "raised_virus_scan_error",
             "raised_referential"}

MaxRetriesExceeded_OffByOne(retries) == retries > max_retries

\* self.retry raises MaxRetriesExceededError once the message has been
\* retried max_retries times.
MaxRetriesExceeded(retries) == retries >= max_retries

PslGuardReturns_NoGuard(status) == FALSE

\* The guard of process_sanitised_letter on the status it loaded.
PslGuardReturns(status) == status # NOTIFICATION_PENDING_VIRUS_CHECK

\* The original deleted before the move.
PslPcAfter_DeleteFirst(pc) ==
    CASE pc = "get" -> IF sanitise_data.validation_status = "failed"
                       THEN "invalid_delete" ELSE "update"
      [] pc = "update" -> "delete"
      [] pc = "delete" -> "move"
      [] pc = "move" -> "returned"
      [] pc = "invalid_delete" -> "invalid_move"
      [] pc = "invalid_move" -> "invalid_update"
      [] pc = "invalid_update" -> "returned"

\* The validation status not looked at.
PslPcAfter_NoValidationCheck(pc) ==
    CASE pc = "get" -> "update"
      [] pc = "update" -> "move"
      [] pc = "move" -> "delete"
      [] pc = "delete" -> "returned"
      [] pc = "invalid_move" -> "invalid_delete"
      [] pc = "invalid_delete" -> "invalid_update"
      [] pc = "invalid_update" -> "returned"

\* The object moved before the notification is updated.
PslPcAfter_MoveFirst(pc) ==
    CASE pc = "get" -> IF sanitise_data.validation_status = "failed"
                       THEN "invalid_move" ELSE "move"
      [] pc = "move" -> "update"
      [] pc = "update" -> "delete"
      [] pc = "delete" -> "returned"
      [] pc = "invalid_move" -> "invalid_delete"
      [] pc = "invalid_delete" -> "invalid_update"
      [] pc = "invalid_update" -> "returned"

\* The original never deleted.
PslPcAfter_NoDelete(pc) ==
    CASE pc = "get" -> IF sanitise_data.validation_status = "failed"
                       THEN "invalid_move" ELSE "update"
      [] pc = "update" -> "move"
      [] pc = "move" -> "returned"
      [] pc = "delete" -> "returned"
      [] pc = "invalid_move" -> "invalid_delete"
      [] pc = "invalid_delete" -> "invalid_update"
      [] pc = "invalid_update" -> "returned"

\* The statement after each statement of process_sanitised_letter's try block.
PslPcAfter(pc) ==
    CASE pc = "get" -> IF sanitise_data.validation_status = "failed"
                       THEN "invalid_move" ELSE "update"
      [] pc = "update" -> "move"
      [] pc = "move" -> "delete"
      [] pc = "delete" -> "returned"
      [] pc = "invalid_move" -> "invalid_delete"
      [] pc = "invalid_delete" -> "invalid_update"
      [] pc = "invalid_update" -> "returned"

SetTask(t, rec) == tasks' = [tasks EXCEPT ![t] = rec]
At(t, pc, effects) == [tasks[t] EXCEPT !.pc = pc, !.effects = @ \cup effects]

\* A storage error of the try block handled like any other exception.
PslOnBotoError_AsException == "on_exception"

\* Where a BotoClientError raised in the try block of process_sanitised_letter
\* goes: "except BotoClientError" (line 341), which precedes "except Exception".
PslOnBotoError == "on_boto"

\* process_sanitised_letter up to the try block: decrypt the payload, load the
\* notification, return if it is not in pending-virus-check; then the first
\* statement of the try block, s3.get_s3_object.
PslStart(t) ==
    /\ tasks[t].pc = "queued"
    /\ \E outcome \in {"ok", "decrypt_raises", "load_raises", "get_boto", "get_raises"} :
         LET loaded == [tasks[t] EXCEPT !.seen = notification.status] IN
         CASE outcome \in {"decrypt_raises", "load_raises"} ->
                SetTask(t, At(t, "raised_uncaught", {}))
           [] outcome = "ok" /\ PslGuardReturns(notification.status) ->
                SetTask(t, [loaded EXCEPT !.pc = "returned_noop"])
           [] outcome = "ok" /\ ~PslGuardReturns(notification.status) ->
                SetTask(t, [loaded EXCEPT !.pc = PslPcAfter("get")])
           [] outcome = "get_boto" /\ ~PslGuardReturns(notification.status) ->
                SetTask(t, [loaded EXCEPT !.pc = PslOnBotoError,
                                          !.effects = @ \cup {"boto_error"}])
           [] outcome = "get_raises" /\ ~PslGuardReturns(notification.status) ->
                SetTask(t, [loaded EXCEPT !.pc = "on_exception"])
           [] OTHER -> FALSE
    /\ UNCHANGED <<groupVars, collateVars, opsVars, letter_kind, notification, s3, sanitise_data, others, scan_reference>>

\* The status of a letter that passed validation, for any key type.
PassedStatus_AlwaysCreated(is_test_key) == NOTIFICATION_CREATED

\* "status=NOTIFICATION_DELIVERED if is_test_key else NOTIFICATION_CREATED"
PassedStatus(is_test_key) ==
    IF is_test_key THEN NOTIFICATION_DELIVERED ELSE NOTIFICATION_CREATED

\* update_letter_pdf_status(status=delivered|created, billable_units, address)
PslUpdate(t) ==
    /\ tasks[t].pc = "update"
    /\ \E outcome \in {"ok", "raises"} :
         IF outcome = "ok"
         THEN /\ notification' = update_letter_pdf_status(
                    notification,
                    PassedStatus(notification.key_type = KEY_TYPE_TEST),
                    get_billable_units_for_letter_page_count(sanitise_data.page_count),
                    sanitise_data.address)
              /\ others' = UpdateRows(
                    others,
                    PassedStatus(notification.key_type = KEY_TYPE_TEST),
                    get_billable_units_for_letter_page_count(sanitise_data.page_count),
                    sanitise_data.address)
              /\ SetTask(t, At(t, PslPcAfter("update"), {"update_status"}))
         ELSE /\ SetTask(t, At(t, "on_exception", {"update_raised"}))
              /\ UNCHANGED <<notification, others>>
    /\ UNCHANGED <<groupVars, collateVars, opsVars, letter_kind, s3, sanitise_data, scan_reference>>

\* The postage the letter was created with, whatever the update has stored.
UploadPostage_AsCreated(n) ==
    IF n.postage \in INTERNATIONAL_POSTAGE_TYPES THEN "second" ELSE n.postage

\* "postage=notification.postage" at line 329: the attribute is read after the
\* update of line 315 has been committed, so it is the stored value.
UploadPostage(n) == n.postage

\* get_letter_pdf_filename, then move_sanitised_letter_to_test_or_live_pdf_bucket:
\* the sanitised PDF goes from sanitise-intake to the test or live bucket.
PslMove(t) ==
    /\ tasks[t].pc = "move"
    /\ LET is_test_key == notification.key_type = KEY_TYPE_TEST
           src == <<SanitiseBucket, Filename>>
           dst == <<IF is_test_key THEN TestLettersBucket ELSE LettersPdfBucket,
                    get_letter_pdf_filename(UploadPostage(notification))>>
       IN \E outcome \in {"ok", "partial", "nothing", "raises"} :
            /\ outcome \in {"ok", "partial"} => src \in s3
            /\ s3' = S3Move(s3, src, dst, outcome)
            /\ SetTask(t, CASE outcome = "ok" -> At(t, PslPcAfter("move"), {"move"})
                            [] outcome = "raises" -> At(t, "on_exception", {})
                            [] OTHER -> At(t, PslOnBotoError, {"boto_error"}))
    /\ UNCHANGED <<groupVars, collateVars, opsVars, letter_kind, notification, sanitise_data, others, scan_reference>>

\* original_pdf_object.delete()
PslDelete(t) ==
    /\ tasks[t].pc = "delete"
    /\ \E outcome \in {"ok", "boto", "raises"} :
         /\ s3' = IF outcome = "ok" THEN s3 \ {<<ScanBucket, Filename>>} ELSE s3
         /\ SetTask(t, CASE outcome = "ok" -> At(t, PslPcAfter("delete"), {"delete_scan"})
                         [] outcome = "boto" -> At(t, PslOnBotoError, {"boto_error"})
                         [] OTHER -> At(t, "on_exception", {}))
    /\ UNCHANGED <<groupVars, collateVars, opsVars, letter_kind, notification, sanitise_data, others, scan_reference>>

\* _move_invalid_letter_and_update_status: move_scan_to_invalid_pdf_bucket
PslInvalidMove(t) ==
    /\ tasks[t].pc = "invalid_move"
    /\ LET src == <<ScanBucket, Filename>>
           dst == <<InvalidBucket, Filename>>
       IN \E outcome \in {"ok", "partial", "nothing", "raises"} :
            /\ outcome \in {"ok", "partial"} => src \in s3
            /\ s3' = S3Move(s3, src, dst, outcome)
            /\ SetTask(t, CASE outcome = "ok" ->
                                 At(t, PslPcAfter("invalid_move"), {"move", "delete_scan"})
                            [] outcome = "raises" -> At(t, "on_exception", {})
                            [] OTHER -> At(t, "invalid_on_boto", {}))
    /\ UNCHANGED <<groupVars, collateVars, opsVars, letter_kind, notification, sanitise_data, others, scan_reference>>

\* _move_invalid_letter_and_update_status: scan_pdf_object.delete()
PslInvalidDelete(t) ==
    /\ tasks[t].pc = "invalid_delete"
    /\ \E outcome \in {"ok", "boto", "raises"} :
         /\ s3' = IF outcome = "ok" THEN s3 \ {<<ScanBucket, Filename>>} ELSE s3
         /\ SetTask(t, CASE outcome = "ok" ->
                              At(t, PslPcAfter("invalid_delete"), {"delete_scan"})
                         [] outcome = "boto" -> At(t, "invalid_on_boto", {})
                         [] OTHER -> At(t, "on_exception", {}))
    /\ UNCHANGED <<groupVars, collateVars, opsVars, letter_kind, notification, sanitise_data, others, scan_reference>>

\* _move_invalid_letter_and_update_status:
\* update_letter_pdf_status(status=validation-failed, billable_units=0)
PslInvalidUpdate(t) ==
    /\ tasks[t].pc = "invalid_update"
    /\ \E outcome \in {"ok", "raises"} :
         IF outcome = "ok"
         THEN /\ notification' = update_letter_pdf_status(
                    notification, NOTIFICATION_VALIDATION_FAILED, 0, NoAddress)
              /\ others' = UpdateRows(others, NOTIFICATION_VALIDATION_FAILED, 0, NoAddress)
              /\ SetTask(t, At(t, PslPcAfter("invalid_update"), {"update_status"}))
         ELSE /\ SetTask(t, At(t, "on_exception", {}))
              /\ UNCHANGED <<notification, others>>
    /\ UNCHANGED <<groupVars, collateVars, opsVars, letter_kind, s3, sanitise_data, scan_reference>>

\* _move_invalid_letter_and_update_status, except BotoClientError: the
\* NotificationTechnicalFailureException it raises reaches "except Exception"
\* of process_sanitised_letter.
PslInvalidOnBoto(t) ==
    /\ tasks[t].pc = "invalid_on_boto"
    /\ notification' = update_notification_status_by_id(
                           notification, NOTIFICATION_TECHNICAL_FAILURE)
    /\ SetTask(t, At(t, "on_exception", {"technical_failure"}))
    /\ UNCHANGED <<groupVars, collateVars, opsVars, letter_kind, s3, sanitise_data, others, scan_reference>>

\* process_sanitised_letter, except BotoClientError
PslOnBoto(t) ==
    /\ tasks[t].pc = "on_boto"
    /\ notification' = update_notification_status_by_id(
                           notification, NOTIFICATION_TECHNICAL_FAILURE)
    /\ SetTask(t, At(t, "raised_technical_failure", {"technical_failure"}))
    /\ UNCHANGED <<groupVars, collateVars, opsVars, letter_kind, s3, sanitise_data, others, scan_reference>>

\* "except Exception" of a task: self.retry, and on MaxRetriesExceededError
\* the status technical-failure and NotificationTechnicalFailureException.
OnException(t) ==
    /\ tasks[t].pc = "on_exception"
    /\ IF MaxRetriesExceeded(tasks[t].retries)
       THEN /\ notification' = update_notification_status_by_id(
                                   notification, NOTIFICATION_TECHNICAL_FAILURE)
            /\ SetTask(t, At(t, "raised_technical_failure",
                             {"technical_failure", "max_retries_exceeded"}))
       ELSE /\ SetTask(t, Queued(tasks[t].name, tasks[t].retries + 1))
            /\ UNCHANGED notification
    /\ UNCHANGED <<groupVars, collateVars, opsVars, letter_kind, s3, sanitise_data, others, scan_reference>>

\* get_pdf_for_templated_letter: the try block
RenderRun(t) ==
    /\ t = RenderId
    /\ tasks[t].pc = "queued"
    /\ \E outcome \in {"ok", "raises"} :
         SetTask(t, IF outcome = "ok"
                    THEN At(t, "returned", {"send_task"})
                    ELSE At(t, "on_exception", {}))
    /\ UNCHANGED <<groupVars, collateVars, opsVars, letter_kind, notification, s3, sanitise_data, others, scan_reference>>

ScanFailStatus_Swapped(name) ==
    IF name = "process-virus-scan-failed"
    THEN NOTIFICATION_TECHNICAL_FAILURE ELSE NOTIFICATION_VIRUS_SCAN_FAILED

\* The status each of the two scan-failure tasks sets.
ScanFailStatus(name) ==
    IF name = "process-virus-scan-failed"
    THEN NOTIFICATION_VIRUS_SCAN_FAILED ELSE NOTIFICATION_TECHNICAL_FAILURE

move_failed_pdf_AfterLookup(objects, outcome) == objects

\* move_failed_pdf(filename, scan_error_type), the first statement of both
\* tasks: the file goes from scan-intake to error-archive.
move_failed_pdf(objects, outcome) ==
    S3Move(objects, <<ScanBucket, Filename>>, <<ErrorBucket, Filename>>, outcome)

\* process_virus_scan_failed / process_virus_scan_error: move_failed_pdf
ScanFailMove(t) ==
    /\ t = ScanFailId
    /\ tasks[t].pc = "queued"
    /\ LET src == <<ScanBucket, Filename>>
       IN \E outcome \in {"ok", "partial", "nothing"} :
            /\ outcome \in {"ok", "partial"} => src \in s3
            /\ s3' = move_failed_pdf(s3, outcome)
            /\ SetTask(t, IF outcome = "ok"
                          THEN At(t, "scanfail_update", {"move"})
                          ELSE At(t, "raised_uncaught", {}))
    /\ UNCHANGED <<groupVars, collateVars, opsVars, letter_kind, notification, sanitise_data, others, scan_reference>>

\* Whether the reference of the scan-failure callback is the notification's.
ReferenceMatches == scan_reference = Reference

\* The number of rows that dao_update_notifications_by_reference updates.
UpdatedCount == IF ReferenceMatches THEN 1 + Len(others) ELSE 0

ScanFailEnd_ReturnsOnMismatch(updated_count) ==
    IF updated_count # 1 THEN "returned" ELSE "raised_virus_scan_error"

\* The end of process_virus_scan_failed / process_virus_scan_error: the
\* exception of "if updated_count != 1", or else the VirusScanError.
ScanFailEnd(updated_count) ==
    IF updated_count # 1 THEN "raised_referential" ELSE "raised_virus_scan_error"

\* process_virus_scan_failed / process_virus_scan_error: look the notification
\* up by the reference of the filename (the lookup or the store may raise),
\* update_letter_pdf_status(reference, status, billable_units=0), raise.
ScanFailUpdate(t) ==
    /\ t = ScanFailId
    /\ tasks[t].pc = "scanfail_update"
    /\ \E outcome \in {"ok", "raises"} :
         IF outcome = "ok"
         THEN /\ notification' =
                    IF ReferenceMatches
                    THEN update_letter_pdf_status(
                             notification, ScanFailStatus(tasks[t].name), 0, NoAddress)
                    ELSE notification
              /\ others' =
                    IF ReferenceMatches
                    THEN UpdateRows(others, ScanFailStatus(tasks[t].name), 0, NoAddress)
                    ELSE others
              /\ SetTask(t, At(t, ScanFailEnd(UpdatedCount),
                               IF UpdatedCount > 0 THEN {"update_status"} ELSE {}))
         ELSE /\ SetTask(t, At(t, "raised_uncaught", {}))
              /\ UNCHANGED <<notification, others>>
    /\ UNCHANGED <<groupVars, collateVars, opsVars, letter_kind, s3, sanitise_data, scan_reference>>

Statuses == {"passed", "failed"}
KeyTypes == {KEY_TYPE_NORMAL, KEY_TYPE_TEST}

\* The value of print_run_deadline before it is assigned.
NoDeadline == [day |-> 0, minute |-> 0]

\* update_billable_units_for_letter has not been queued.
BillIdle ==
    /\ ubu_pc = "idle"
    /\ ubu_page_count = 0

\* replay_letters_in_error has not been called.
ReplayIdle ==
    /\ antivirus_enabled = TRUE
    /\ r_filename = None
    /\ r_pc = "idle"
    /\ r_items = <<>>
    /\ r_k = 1
    /\ submitted = <<>>

\* No archive name is being built.
SequenceIdle ==
    /\ q_groups = <<>>
    /\ q_pc = "idle"
    /\ q_postage = 1
    /\ q_i = 0
    /\ q_fields = <<>>

\* No print-run deadline is being computed.
ClockIdle ==
    /\ clock = 0
    /\ print_run_deadline = NoDeadline

\* _invoke_lambda_with_failover has not been called.
NoCall == [pc |-> "idle", lambda_name |-> None, failover_lambda_name |-> None,
           payload |-> None, invoked |-> <<>>]

ProxyIdle == proxy = NoCall

\* No administrative task or command is in progress.
OpsIdle == BillIdle /\ ReplayIdle /\ SequenceIdle /\ ClockIdle /\ ProxyIdle

\* No collation run has been started.
CollateIdle ==
    /\ letters_awaiting_sending = <<>>
    /\ utcnow = [day |-> 0, minute |-> 0]
    /\ c_run = 0
    /\ c_pc = "idle"
    /\ c_postage = 1
    /\ c_heads = <<>>
    /\ c_emitted = 0
    /\ sent = <<>>
    /\ history = {}

GroupIdle ==
    /\ CollateIdle
    /\ letter_pdfs = <<>>
    /\ max_filesize = 1
    /\ max_count = 1
    /\ g_pc = "idle"
    /\ g_i = 1
    /\ running_filesize = 0
    /\ list_of_files = <<>>
    /\ service_id = None
    /\ yielded = <<>>

TasksIdle ==
    /\ letter_kind = "none"
    /\ notification = [status |-> NOTIFICATION_CREATED, billable_units |-> 0,
                       postage |-> "second", international |-> FALSE,
                       to |-> NoAddress, key_type |-> KEY_TYPE_NORMAL]
    /\ s3 = {}
    /\ sanitise_data = [validation_status |-> "passed", page_count |-> 0,
                        address |-> NoAddress]
    /\ tasks = [t \in TaskIds |-> NoTask]
    /\ others = <<>>
    /\ scan_reference = Reference

\* A precompiled letter waits in pending-virus-check with its upload in
\* scan-intake (and its sanitised PDF in sanitise-intake when validation
\* passed); a templated letter is created and waits for its PDF.
Init ==
    /\ GroupIdle
    /\ OpsIdle
    /\ letter_kind \in {"precompiled", "templated"}
    /\ \E key_type \in KeyTypes :
         notification = [status |-> IF letter_kind = "precompiled"
                                    THEN NOTIFICATION_PENDING_VIRUS_CHECK
                                    ELSE NOTIFICATION_CREATED,
                         billable_units |-> 0,
                         postage |-> "second",
                         international |-> FALSE,
                         to |-> NoAddress,
                         key_type |-> key_type]
    /\ sanitise_data \in [validation_status : Statuses, page_count : PageCounts,
                          address : Addresses]
    /\ letter_kind = "templated" =>
         /\ sanitise_data.validation_status = "passed"
         /\ sanitise_data.address = NoAddress
    /\ sanitise_data.validation_status = "failed" => sanitise_data.address = NoAddress
    /\ s3 = IF letter_kind = "templated" THEN {}
            ELSE {<<ScanBucket, Filename>>}
                 \cup (IF sanitise_data.validation_status = "passed"
                       THEN {<<SanitiseBucket, Filename>>} ELSE {})
    /\ \E names \in [TaskIds -> UNION {TaskName(t) : t \in TaskIds}] :
         /\ \A t \in TaskIds : names[t] \in TaskName(t)
         /\ \A t \in TaskIds \ {ScanFailId} : names[t] = CHOOSE n \in TaskName(t) : TRUE
         /\ tasks = [t \in TaskIds |->
                       IF letter_kind = "templated"
                       THEN (IF t = RenderId THEN Queued(names[t], 0) ELSE NoTask)
                       ELSE (IF t \in {"psl1", ScanFailId}
                             THEN Queued(names[t], 0) ELSE NoTask)]
    /\ others = <<>>
    /\ scan_reference = Reference

\* The broker delivers the callback's message again (at-least-once delivery)
\* after an execution of it has ended.
Redeliver(t) ==
    /\ t \in PslIds
    /\ tasks[t].pc \in FinalPcs \ {"none"}
    /\ SetTask(t, Queued(tasks[t].name, 0))
    /\ UNCHANGED <<groupVars, collateVars, opsVars, letter_kind, notification, s3, sanitise_data, others, scan_reference>>

Next ==
    \/ \E t \in PslIds :
         \/ PslStart(t)
         \/ PslUpdate(t)
         \/ PslMove(t)
         \/ PslDelete(t)
         \/ PslInvalidMove(t)
         \/ PslInvalidDelete(t)
         \/ PslInvalidUpdate(t)
         \/ PslInvalidOnBoto(t)
         \/ PslOnBoto(t)
         \/ Redeliver(t)
    \/ \E t \in PslIds \cup {RenderId} : OnException(t)
    \/ RenderRun(RenderId)
    \/ ScanFailMove(ScanFailId)
    \/ ScanFailUpdate(ScanFailId)

Spec == Init /\ [][Next]_vars

\* The executions one after the other: a step is of a message whose
\* execution no other execution overlaps.
AtRest(t) == tasks[t].pc \in FinalPcs \cup {"queued"}

NextSerial ==
    /\ Next
    /\ \A t \in TaskIds :
         tasks'[t] # tasks[t] => \A u \in TaskIds \ {t} : AtRest(u)

SpecSerial == Init /\ [][NextSerial]_vars

\* Two workers hold the same callback of a precompiled letter at once: both
\* messages are queued, none is delivered again after it has ended.
InitConc ==
    /\ GroupIdle
    /\ OpsIdle
    /\ letter_kind = "precompiled"
    /\ \E key_type \in KeyTypes :
         notification = [status |-> NOTIFICATION_PENDING_VIRUS_CHECK,
                         billable_units |-> 0,
                         postage |-> "second",
                         international |-> FALSE,
                         to |-> NoAddress,
                         key_type |-> key_type]
    /\ sanitise_data \in [validation_status : Statuses, page_count : PageCounts,
                          address : {NoAddress}]
    /\ s3 = {<<ScanBucket, Filename>>}
            \cup (IF sanitise_data.validation_status = "passed"
                  THEN {<<SanitiseBucket, Filename>>} ELSE {})
    /\ tasks = [t \in TaskIds |->
                  IF t \in PslIds
                  THEN Queued(CHOOSE n \in TaskName(t) : TRUE, 0) ELSE NoTask]
    /\ others = <<>>
    /\ scan_reference = Reference

NextConc ==
    \/ \E t \in PslIds :
         \/ PslStart(t)
         \/ PslUpdate(t)
         \/ PslMove(t)
         \/ PslDelete(t)
         \/ PslInvalidMove(t)
         \/ PslInvalidDelete(t)
         \/ PslInvalidUpdate(t)
         \/ PslInvalidOnBoto(t)
         \/ PslOnBoto(t)
         \/ OnException(t)

SpecConc == InitConc /\ [][NextConc]_vars

\* One delivery of the scan-result callback of a precompiled letter, its steps
\* and its retries scheduled fairly by the workers.
InitLive ==
    /\ GroupIdle
    /\ OpsIdle
    /\ letter_kind = "precompiled"
    /\ \E key_type \in KeyTypes :
         notification = [status |-> NOTIFICATION_PENDING_VIRUS_CHECK,
                         billable_units |-> 0,
                         postage |-> "second",
                         international |-> FALSE,
                         to |-> NoAddress,
                         key_type |-> key_type]
    /\ sanitise_data \in [validation_status : Statuses, page_count : PageCounts,
                          address : Addresses]
    /\ sanitise_data.validation_status = "failed" => sanitise_data.address = NoAddress
    /\ s3 = {<<ScanBucket, Filename>>}
            \cup (IF sanitise_data.validation_status = "passed"
                  THEN {<<SanitiseBucket, Filename>>} ELSE {})
    /\ tasks = [t \in TaskIds |->
                  IF t = "psl1"
                  THEN Queued(CHOOSE n \in TaskName(t) : TRUE, 0) ELSE NoTask]
    /\ others = <<>>
    /\ scan_reference = Reference

NextLive ==
    \/ PslStart("psl1")
    \/ PslUpdate("psl1")
    \/ PslMove("psl1")
    \/ PslDelete("psl1")
    \/ PslInvalidMove("psl1")
    \/ PslInvalidDelete("psl1")
    \/ PslInvalidUpdate("psl1")
    \/ PslInvalidOnBoto("psl1")
    \/ PslOnBoto("psl1")
    \/ OnException("psl1")

SpecLive == InitLive /\ [][NextLive]_vars /\ WF_vars(NextLive)

\* A scan-failure callback on its own: its filename's reference is the
\* notification's or no notification's, and the store may hold a second
\* notification with the notification's reference.
ScanFailPreStatuses == {NOTIFICATION_PENDING_VIRUS_CHECK, NOTIFICATION_CREATED,
                        NOTIFICATION_TECHNICAL_FAILURE}

InitScanFail ==
    /\ GroupIdle
    /\ OpsIdle
    /\ letter_kind = "precompiled"
    /\ \E key_type \in KeyTypes, status \in ScanFailPreStatuses :
         notification = [status |-> status,
                         billable_units |-> IF status = NOTIFICATION_CREATED THEN 2 ELSE 0,
                         postage |-> "second",
                         international |-> FALSE,
                         to |-> NoAddress,
                         key_type |-> key_type]
    /\ sanitise_data = [validation_status |-> "passed", page_count |-> 3,
                        address |-> NoAddress]
    /\ s3 = {<<ScanBucket, Filename>>}
    /\ \E name \in TaskName(ScanFailId) :
         tasks = [t \in TaskIds |-> IF t = ScanFailId THEN Queued(name, 0) ELSE NoTask]
    /\ others \in {<<>>, <<notification>>}
    /\ scan_reference \in {Reference, NoSuchReference}

NextScanFail ==
    \/ ScanFailMove(ScanFailId)
    \/ ScanFailUpdate(ScanFailId)

SpecScanFail == InitScanFail /\ [][NextScanFail]_vars

InitGroup ==
    /\ TasksIdle
    /\ OpsIdle
    /\ CollateIdle
    /\ \/ /\ letter_pdfs \in UNION {[1..n -> Letters] : n \in 0..MaxLetters}
          /\ max_filesize \in FileSizeCaps
          /\ max_count \in CountCaps
       \/ /\ letter_pdfs = ExampleLetters
          /\ max_filesize = 20
          /\ max_count = 5
    /\ g_pc = "loop"
    /\ g_i = 1
    /\ running_filesize = 0
    /\ list_of_files = <<>>
    /\ service_id = None
    /\ yielded = <<>>

\* One iteration of "for letter in letter_pdfs" on a key that is not a PDF.
GroupSkipLetter ==
    /\ g_pc = "loop"
    /\ g_i <= Len(letter_pdfs)
    /\ ~IsPdfKey(letter_pdfs[g_i].Key)
    /\ g_i' = g_i + 1
    /\ UNCHANGED <<letter_pdfs, max_filesize, max_count, g_pc,
                   running_filesize, list_of_files, service_id, yielded>>

\* One iteration of "for letter in letter_pdfs" on a PDF key.
GroupAddLetter ==
    /\ g_pc = "loop"
    /\ g_i <= Len(letter_pdfs)
    /\ IsPdfKey(letter_pdfs[g_i].Key)
    /\ LET letter == letter_pdfs[g_i]
           sid1 == ServiceIdOrLetters(service_id, letter)
           brk == StartsNewGroup(letter, running_filesize, list_of_files, sid1)
           running2 == IF brk THEN 0 ELSE running_filesize
           files2 == IF brk THEN <<>> ELSE list_of_files
           sid2 == IF brk THEN None ELSE sid1
       IN /\ yielded' = IF brk THEN Append(yielded, list_of_files) ELSE yielded
          /\ service_id' = ServiceIdOrLetters(sid2, letter)
          /\ running_filesize' = running2 + letter.Size
          /\ list_of_files' = Append(files2, letter)
    /\ g_i' = g_i + 1
    /\ UNCHANGED <<letter_pdfs, max_filesize, max_count, g_pc>>

\* After the loop: "if list_of_files: yield list_of_files".
GroupFinish ==
    /\ g_pc = "loop"
    /\ g_i > Len(letter_pdfs)
    /\ yielded' = IF list_of_files # <<>>
                  THEN Append(yielded, list_of_files) ELSE yielded
    /\ g_pc' = "done"
    /\ UNCHANGED <<letter_pdfs, max_filesize, max_count, g_i,
                   running_filesize, list_of_files, service_id>>

NextGroup ==
    /\ GroupSkipLetter \/ GroupAddLetter \/ GroupFinish
    /\ UNCHANGED <<taskVars, collateVars, opsVars>>

SpecGroup == InitGroup /\ [][NextGroup]_vars

\* ------------------------------------------------------------------------
\* collate_letter_pdfs_to_be_sent
\* ------------------------------------------------------------------------
\* The postage classes of the loop (two of them modelled), and their codes in
\* file names.
POSTAGE_TYPES == <<"first", "second">>

RESOLVE_POSTAGE_FOR_FILE_NAME(postage) ==
    CASE postage = "first" -> "1"
      [] postage = "second" -> "2"
      [] postage = "europe" -> "E"
      [] OTHER -> "N"

\* The local time of day, in minutes, before which a run belongs to the
\* previous day's print run (17:30).
LETTER_PROCESSING_DEADLINE == 1050

\* The local times at which a run starts: at the deadline of day 10, in the
\* morning of day 11, in the evening of day 11.
Nows == {[day |-> 10, minute |-> 1050], [day |-> 11, minute |-> 540],
         [day |-> 11, minute |-> 1080]}

\* The comparison with the deadline takes the time of the deadline itself as before it.
PrintRunDate_DeadlineIsBefore(now) ==
    IF now.minute <= LETTER_PROCESSING_DEADLINE THEN now.day - 1 ELSE now.day

\* print_run_date, with "if print_run_date.time() < LETTER_PROCESSING_DEADLINE".
PrintRunDate(now) ==
    IF now.minute < LETTER_PROCESSING_DEADLINE THEN now.day - 1 ELSE now.day

\* print_run_deadline: 17:30 of the print-run date.
PrintRunDeadline(now) == [day |-> PrintRunDate(now), minute |-> 1050]

\* ------------------------------------------------------------------------
\* The print-run deadline
\* ------------------------------------------------------------------------
\* Instants are minutes of UTC counted from midnight of day 0; timedelta(days=1).
DayMinutes == 1440

\* The days of the window.  The clocks go forward at 01:00 UTC of day 1 and
\* back at 01:00 UTC of day 4, as they do on the last Sundays of March and
\* of October.
MaxDay == 5
ClocksGoForward == 1 * DayMinutes + 60
ClocksGoBack == 4 * DayMinutes + 60

\* The offset of local time from UTC at an instant, in minutes.
BstOffset(utc) == IF utc >= ClocksGoForward /\ utc < ClocksGoBack THEN 60 ELSE 0

\* convert_utc_to_bst: the naive local date (a day number) and time of day.
convert_utc_to_bst(utc) ==
    LET local == utc + BstOffset(utc)
    IN [day |-> local \div DayMinutes, minute |-> local % DayMinutes]

\* datetime.utcnow(): every half hour of the window.
Clocks == {d * DayMinutes + 30 * h : d \in 1..MaxDay, h \in 0..47}

DigitChars == <<"0", "1", "2", "3", "4", "5", "6", "7", "8", "9">>

\* str(n) for n >= 0
RECURSIVE DigitsOf(_)
DigitsOf(n) ==
    IF n < 10 THEN <<DigitChars[n + 1]>>
    ELSE Append(DigitsOf(n \div 10), DigitChars[(n % 10) + 1])

\* '{num:03}'.format(num=n): zero-padded to a width of at least three.
Format03(n) ==
    LET d == DigitsOf(n)
    IN IF Len(d) >= 3 THEN d ELSE [i \in 1..(3 - Len(d)) |-> "0"] \o d

\* The key of the k-th letter of a postage class, as get_letter_pdf_filename
\* derives it from the letter's reference and postage.
KeyOfLetter(postage, k) ==
    <<DigitChars[k + 1], ".", RESOLVE_POSTAGE_FOR_FILE_NAME(postage), ".", "P", "D", "F">>

\* ''.join(filenames)
RECURSIVE Join(_)
Join(filenames) ==
    IF filenames = <<>> THEN <<>> ELSE Head(filenames) \o Join(Tail(filenames))

Alphabet == <<".", "0", "1", "2", "3", "4", "5", "6", "7", "8", "9",
              "D", "E", "F", "N", "P">>
CharCode(c) == CHOOSE i \in 1..Len(Alphabet) : Alphabet[i] = c

\* The number of values of the truncated digest in the model.
HashSpace == 64

\* urlsafe_b64encode(sha512(text).digest())[:20]: a digest of the characters
\* of text, in order.
RECURSIVE DigestFrom(_, _)
DigestFrom(h, text) ==
    IF text = <<>> THEN h
    ELSE DigestFrom((h * 31 + CharCode(Head(text))) % HashSpace, Tail(text))

Digest(text) == DigestFrom(7, text)

\* The archive name that depends on which run computes it.
dvla_filename_PerRun(now, postage, i, filenames, sid) ==
    <<"NOTIFY", PrintRunDate(now), RESOLVE_POSTAGE_FOR_FILE_NAME(postage),
      Format03(i + c_run), Digest(Join(filenames)), sid, "ZIP">>

\* One archive name per print-run date, postage class and service: the
\* sequence number and the digest are those of the first group.
dvla_filename_PerService(now, postage, i, filenames, sid) ==
    <<"NOTIFY", PrintRunDate(now), RESOLVE_POSTAGE_FOR_FILE_NAME(postage),
      Format03(1), Digest(<<>>), sid, "ZIP">>

\* 'NOTIFY.{date}.{postage}.{num:03}.{hash}.{service_id}.ZIP'
dvla_filename(now, postage, i, filenames, sid) ==
    <<"NOTIFY", PrintRunDate(now), RESOLVE_POSTAGE_FOR_FILE_NAME(postage),
      Format03(i + 1), Digest(Join(filenames)), sid, "ZIP">>

HeadOutcomes == {"ok", "boto", "raises"}

\* A storage error of a lookup aborts the loop.
AfterHead_BotoAborts(outcome) ==
    CASE outcome = "ok" -> "append"
      [] OTHER -> "raise"

\* One iteration of the loop of get_key_and_size_of_letters_to_be_sent_to_print:
\* the letter is appended, or "except BotoClientError" logs and goes on, or
\* another exception leaves the function.
AfterHead(outcome) ==
    CASE outcome = "ok" -> "append"
      [] outcome = "boto" -> "skip"
      [] OTHER -> "raise"

\* get_key_and_size_of_letters_to_be_sent_to_print from its k-th letter on.
RECURSIVE HeadLoop(_, _, _, _)
HeadLoop(rows, heads, k, acc) ==
    IF k > Len(rows) THEN [raised |-> FALSE, pdfs |-> acc]
    ELSE CASE AfterHead(heads[k]) = "append" ->
                HeadLoop(rows, heads, k + 1,
                         Append(acc, [Key |-> rows[k].Key, Size |-> rows[k].Size,
                                      ServiceId |-> rows[k].ServiceId]))
           [] AfterHead(heads[k]) = "skip" -> HeadLoop(rows, heads, k + 1, acc)
           [] OTHER -> [raised |-> TRUE, pdfs |-> acc]

\* The letters of a postage class that dao_get_letters_to_be_printed returns:
\* in created status, ordered by service.
AwaitingRows(postage, max) ==
    UNION {
      {rows \in [1..n -> [Key : {KeyOfLetter(postage, k) : k \in 1..n},
                          Size : Sizes, ServiceId : ServiceIds,
                          status : {NOTIFICATION_CREATED}, postage : {postage}]] :
          /\ \A k \in 1..n : rows[k].Key = KeyOfLetter(postage, k)
          /\ \A j, k \in 1..n :
               (j < k /\ rows[j].ServiceId = "svcB") => rows[k].ServiceId = "svcB"}
      : n \in 0..max}

PostageIndexes == 1..Len(POSTAGE_TYPES)

MaxAwaitingOf(p) == IF p = 1 THEN MaxAwaiting ELSE MaxAwaitingLater

CollateEnded == {"done", "raised_head", "raised_send_task", "raised_index_error"}

InitCollate ==
    /\ TasksIdle
    /\ OpsIdle
    /\ letters_awaiting_sending \in
         {f \in [PostageIndexes ->
                    UNION {AwaitingRows(POSTAGE_TYPES[p], MaxAwaitingOf(p)) : p \in PostageIndexes}] :
             \A p \in PostageIndexes : f[p] \in AwaitingRows(POSTAGE_TYPES[p], MaxAwaitingOf(p))}
    /\ utcnow = [day |-> 0, minute |-> 0]
    /\ c_run = 0
    /\ c_pc = "idle"
    /\ c_postage = 1
    /\ c_heads = <<>>
    /\ c_emitted = 0
    /\ sent = <<>>
    /\ history = {}
    /\ letter_pdfs = <<>>
    /\ max_filesize \in FileSizeCaps
    /\ max_count \in CountCaps
    /\ g_pc = "idle"
    /\ g_i = 1
    /\ running_filesize = 0
    /\ list_of_files = <<>>
    /\ service_id = None
    /\ yielded = <<>>

\* The task is started (at most `runs` times in the window): lines 132-139.
CollateStart(runs) ==
    /\ c_pc \in CollateEnded \cup {"idle"}
    /\ c_run < runs
    /\ c_run' = c_run + 1
    /\ utcnow' \in Nows
    /\ c_pc' = "fetch"
    /\ c_postage' = 1
    /\ c_heads' = <<>>
    /\ c_emitted' = 0
    /\ sent' = <<>>
    /\ letter_pdfs' = <<>>
    /\ g_pc' = "idle"
    /\ g_i' = 1
    /\ running_filesize' = 0
    /\ list_of_files' = <<>>
    /\ service_id' = None
    /\ yielded' = <<>>
    /\ UNCHANGED <<taskVars, opsVars, letters_awaiting_sending, history, max_filesize, max_count>>

\* letters_to_print = get_key_and_size_of_letters_to_be_sent_to_print(...),
\* and the call of group_letters(letters_to_print).
CollateFetch ==
    /\ c_pc = "fetch"
    /\ LET rows == letters_awaiting_sending[c_postage] IN
       \E heads \in [1..Len(rows) -> HeadOutcomes] :
         LET result == HeadLoop(rows, heads, 1, <<>>) IN
         /\ c_heads' = heads
         /\ letter_pdfs' = result.pdfs
         /\ c_pc' = IF result.raised THEN "raised_head" ELSE "group"
         /\ g_pc' = IF result.raised THEN "idle" ELSE "loop"
    /\ g_i' = 1
    /\ running_filesize' = 0
    /\ list_of_files' = <<>>
    /\ service_id' = None
    /\ yielded' = <<>>
    /\ c_emitted' = 0
    /\ UNCHANGED <<taskVars, opsVars, letters_awaiting_sending, utcnow, c_run, c_postage,
                   sent, history, max_filesize, max_count>>

\* The generator runs only when the loop body has consumed what it yielded.
GeneratorResumed == c_pc = "group" /\ Len(yielded) = c_emitted

\* One iteration of the generator's loop; every key of letters_to_print comes
\* from get_letter_pdf_filename and ends in .PDF.
CollateAddLetter ==
    /\ GeneratorResumed
    /\ GroupAddLetter
    /\ UNCHANGED <<taskVars, collateVars, opsVars>>

CollateFinish ==
    /\ GeneratorResumed
    /\ GroupFinish
    /\ UNCHANGED <<taskVars, collateVars, opsVars>>

\* The task sent for a group, named after the service the generator holds
\* when the loop body runs.
Manifest_GeneratorService(letters, now, postage, i) ==
    LET filenames == [k \in 1..Len(letters) |-> letters[k].Key]
    IN [filenames_to_zip |-> filenames,
        upload_filename |-> dvla_filename(now, postage, i, filenames, service_id),
        postage |-> postage]

\* The task sent for a group: lines 145-173.
Manifest(letters, now, postage, i) ==
    LET filenames == [k \in 1..Len(letters) |-> letters[k].Key]
    IN [filenames_to_zip |-> filenames,
        upload_filename |-> dvla_filename(now, postage, i, filenames,
                                          letters[1].ServiceId),
        postage |-> postage]

\* The body of "for i, letters in enumerate(group_letters(letters_to_print))":
\* letters[0] raises IndexError on an empty group, send_task may raise.
CollateEmit ==
    /\ c_pc = "group"
    /\ Len(yielded) > c_emitted
    /\ LET letters == yielded[c_emitted + 1] IN
       IF letters = <<>>
       THEN /\ c_pc' = "raised_index_error"
            /\ UNCHANGED <<sent, c_emitted>>
       ELSE \E outcome \in {"ok", "raises"} :
              IF outcome = "ok"
              THEN /\ sent' = Append(sent, Manifest(letters, utcnow,
                                                   POSTAGE_TYPES[c_postage], c_emitted))
                   /\ c_emitted' = c_emitted + 1
                   /\ UNCHANGED c_pc
              ELSE /\ c_pc' = "raised_send_task"
                   /\ UNCHANGED <<sent, c_emitted>>
    /\ UNCHANGED <<groupVars, taskVars, opsVars, letters_awaiting_sending, utcnow, c_run,
                   c_postage, c_heads, history>>

\* What a completed pass over a postage class has produced.
PassRecord ==
    [run |-> c_run,
     postage |-> POSTAGE_TYPES[c_postage],
     date |-> PrintRunDate(utcnow),
     letter_pdfs |-> letter_pdfs,
     groups |-> yielded,
     filenames |-> LET mine == SelectSeq(sent, LAMBDA m : m.postage = POSTAGE_TYPES[c_postage])
                   IN [k \in 1..Len(mine) |-> mine[k].upload_filename]]

\* The letters awaiting sending as a pass would leave them if it took the
\* letters it has collated off the list.
LettersAfterPass_MarkedSent(awaiting, p) == [awaiting EXCEPT ![p] = <<>>]

\* The letters awaiting sending after the pass over class p: the task reads
\* them, looks their PDFs up and submits tasks, and writes none of them.
LettersAfterPass(awaiting, p) == awaiting

\* The generator is exhausted: the next postage class, or the end of the task.
CollateNextPostage ==
    /\ c_pc = "group"
    /\ g_pc = "done"
    /\ Len(yielded) = c_emitted
    /\ history' = history \cup {PassRecord}
    /\ IF c_postage = Len(POSTAGE_TYPES)
       THEN c_pc' = "done" /\ UNCHANGED c_postage
       ELSE c_pc' = "fetch" /\ c_postage' = c_postage + 1
    /\ letters_awaiting_sending' = LettersAfterPass(letters_awaiting_sending, c_postage)
    /\ UNCHANGED <<groupVars, taskVars, opsVars, utcnow, c_run,
                   c_heads, c_emitted, sent>>

\* One run of the task.
NextCollate ==
    \/ CollateStart(1)
    \/ CollateFetch
    \/ CollateAddLetter
    \/ CollateFinish
    \/ CollateEmit
    \/ CollateNextPostage

SpecCollate == InitCollate /\ [][NextCollate]_vars

\* Two runs of the task in one window, over the same letters: letters of
\* one size, at most one of them of the second class.
InitCollateTwice ==
    /\ InitCollate
    /\ Len(letters_awaiting_sending[2]) <= 1
    /\ \A p \in PostageIndexes : \A k \in 1..Len(letters_awaiting_sending[p]) :
         letters_awaiting_sending[p][k].Size = 1

NextCollateTwice ==
    \/ CollateStart(2)
    \/ CollateFetch
    \/ CollateAddLetter
    \/ CollateFinish
    \/ CollateEmit
    \/ CollateNextPostage

SpecCollateTwice == InitCollateTwice /\ [][NextCollateTwice]_vars

\* ------------------------------------------------------------------------
\* The sequence field of the archive names
\* ------------------------------------------------------------------------
\* How many groups group_letters yields for a postage class.
MaxGroups == 1000
GroupCounts == {0, 1, 2, MaxGroups}

\* The loops of lines 140-156 with the groups reduced to their number.
InitSequence ==
    /\ GroupIdle
    /\ TasksIdle
    /\ ProxyIdle
    /\ BillIdle
    /\ ReplayIdle
    /\ ClockIdle
    /\ q_groups \in [PostageIndexes -> GroupCounts]
    /\ q_pc = "loop"
    /\ q_postage = 1
    /\ q_i = 0
    /\ q_fields = <<>>

\* One iteration of "for i, letters in enumerate(...)": num=i + 1, '{num:03}'.
SequenceEmit ==
    /\ q_pc = "loop"
    /\ q_i < q_groups[q_postage]
    /\ q_fields' = Append(q_fields, Format03(q_i + 1))
    /\ q_i' = q_i + 1
    /\ UNCHANGED <<groupVars, taskVars, collateVars, ubu_pc, ubu_page_count,
                   antivirus_enabled, r_filename, r_pc, r_items, r_k, submitted,
                   q_groups, q_pc, q_postage, clock, print_run_deadline, proxy>>

\* The groups of the class are exhausted: "for postage in POSTAGE_TYPES" goes on.
SequenceNextPostage ==
    /\ q_pc = "loop"
    /\ q_i = q_groups[q_postage]
    /\ IF q_postage = Len(POSTAGE_TYPES)
       THEN q_pc' = "done" /\ UNCHANGED <<q_postage, q_i, q_fields>>
       ELSE /\ q_postage' = q_postage + 1
            /\ q_i' = 0
            /\ q_fields' = <<>>
            /\ UNCHANGED q_pc
    /\ UNCHANGED <<groupVars, taskVars, collateVars, ubu_pc, ubu_page_count,
                   antivirus_enabled, r_filename, r_pc, r_items, r_k, submitted,
                   q_groups, clock, print_run_deadline, proxy>>

NextSequence ==
    \/ SequenceEmit
    \/ SequenceNextPostage

SpecSequence == InitSequence /\ [][NextSequence]_vars

\* ------------------------------------------------------------------------
\* The print-run deadline: lines 133-139 at any instant of the window
\* ------------------------------------------------------------------------
InitCutoff ==
    /\ GroupIdle
    /\ TasksIdle
    /\ ProxyIdle
    /\ BillIdle
    /\ ReplayIdle
    /\ SequenceIdle
    /\ clock \in Clocks
    /\ print_run_deadline = NoDeadline

\* print_run_date and print_run_deadline of collate_letter_pdfs_to_be_sent.
ComputePrintRunDeadline ==
    /\ print_run_deadline = NoDeadline
    /\ print_run_deadline' = PrintRunDeadline(convert_utc_to_bst(clock))
    /\ UNCHANGED <<groupVars, taskVars, collateVars, ubu_pc, ubu_page_count,
                   antivirus_enabled, r_filename, r_pc, r_items, r_k, submitted,
                   q_groups, q_pc, q_postage, q_i, q_fields, clock, proxy>>

NextCutoff ==
    \/ ComputePrintRunDeadline

SpecCutoff == InitCutoff /\ [][NextCutoff]_vars

\* ------------------------------------------------------------------------
\* update_billable_units_for_letter
\* ------------------------------------------------------------------------
KEY_TYPE_TEAM == "team"

\* The notifications the task may be given, and the page counts.
BillableStatuses ==
    {NOTIFICATION_CREATED, NOTIFICATION_DELIVERED, NOTIFICATION_PENDING_VIRUS_CHECK,
     NOTIFICATION_TECHNICAL_FAILURE, NOTIFICATION_VALIDATION_FAILED}
BillableKeyTypes == {KEY_TYPE_NORMAL, KEY_TYPE_TEAM, KEY_TYPE_TEST}
MaxPageCount == 4
BillablePageCounts == 1..MaxPageCount

\* dao_update_notification: the row takes the values of the object.
dao_update_notification(row, object) == object

\* The task sets the billable units of every notification.
update_billable_units_for_letter_NoExemption(n, page_count) ==
    dao_update_notification(
        n, [n EXCEPT !.billable_units =
                       get_billable_units_for_letter_page_count(page_count)])

\* The body of the task on the notification it has loaded: lines 110-114.
update_billable_units_for_letter(n, page_count) ==
    IF n.key_type # KEY_TYPE_TEST
    THEN dao_update_notification(
             n, [n EXCEPT !.billable_units =
                            get_billable_units_for_letter_page_count(page_count)])
    ELSE n

InitBillable ==
    /\ GroupIdle
    /\ ProxyIdle
    /\ ReplayIdle
    /\ SequenceIdle
    /\ ClockIdle
    /\ letter_kind = "templated"
    /\ notification \in [status : BillableStatuses, billable_units : {0, 1},
                         postage : {"first", "second"}, international : {FALSE},
                         to : {NoAddress}, key_type : BillableKeyTypes]
    /\ s3 = {}
    /\ sanitise_data = [validation_status |-> "passed", page_count |-> 0,
                        address |-> NoAddress]
    /\ tasks = [t \in TaskIds |-> NoTask]
    /\ others = <<>>
    /\ scan_reference = Reference
    /\ ubu_pc = "queued"
    /\ ubu_page_count \in BillablePageCounts

\* One execution of the task: get_notification_by_id or dao_update_notification
\* may raise, and nothing catches it.
UpdateBillableUnits ==
    /\ ubu_pc = "queued"
    /\ \E outcome \in {"ok", "get_raises", "update_raises"} :
         CASE outcome = "ok" ->
                /\ notification' = update_billable_units_for_letter(notification,
                                                                    ubu_page_count)
                /\ ubu_pc' = "done"
           [] outcome = "get_raises" ->
                /\ ubu_pc' = "raised"
                /\ UNCHANGED notification
           [] OTHER ->
                /\ notification.key_type # KEY_TYPE_TEST
                /\ ubu_pc' = "raised"
                /\ UNCHANGED notification
    /\ UNCHANGED <<groupVars, collateVars, letter_kind, s3, sanitise_data, tasks,
                   others, scan_reference, ubu_page_count, antivirus_enabled,
                   r_filename, r_pc, r_items, r_k, submitted, q_groups, q_pc,
                   q_postage, q_i, q_fields, clock, print_run_deadline, proxy>>

NextBillable ==
    \/ UpdateBillableUnits

SpecBillable == InitBillable /\ [][NextBillable]_vars

\* ------------------------------------------------------------------------
\* replay_letters_in_error
\* ------------------------------------------------------------------------
\* The files that may lie in the error bucket, in the order of a listing.
ReplayFiles == <<"A.pdf", "B.pdf", "C.pdf">>
ReplayFileSet == {ReplayFiles[k] : k \in 1..Len(ReplayFiles)}

\* TaskNames.SCAN_FILE and the name of the sanitise_letter task.
SCAN_FILE == "scan-file"
SANITISE_LETTER == "sanitise-letter"

\* get_file_names_from_error_bucket: the objects of the error bucket, each
\* with its key "<folder>/<file name>" as its path components.
get_file_names_from_error_bucket(objects) ==
    LET present == SelectSeq(ReplayFiles, LAMBDA f : <<ErrorBucket, f>> \in objects)
    IN [k \in 1..Len(present) |-> [key |-> <<"ERROR", present[k]>>]]

\* item.key.split('/')[1]
moved_file_name(item) == item.key[2]

\* The file that the current step of the command moves.
ReplayFile == IF r_filename # None THEN r_filename ELSE moved_file_name(r_items[r_k])

\* The argument of sanitise_letter.apply_async in both branches: [filename].
SanitiseArgument == r_filename

\* The task submitted for the file that was moved: lines 450-461 and 469-480.
SubmittedTask ==
    IF antivirus_enabled
    THEN [task |-> SCAN_FILE, filename |-> ReplayFile]
    ELSE [task |-> SANITISE_LETTER, filename |-> SanitiseArgument]

InitReplay ==
    /\ GroupIdle
    /\ ProxyIdle
    /\ BillIdle
    /\ SequenceIdle
    /\ ClockIdle
    /\ letter_kind = "none"
    /\ notification = [status |-> NOTIFICATION_PENDING_VIRUS_CHECK, billable_units |-> 0,
                       postage |-> "second", international |-> FALSE,
                       to |-> NoAddress, key_type |-> KEY_TYPE_NORMAL]
    /\ \E files \in SUBSET ReplayFileSet : s3 = {<<ErrorBucket, f>> : f \in files}
    /\ sanitise_data = [validation_status |-> "passed", page_count |-> 0,
                        address |-> NoAddress]
    /\ tasks = [t \in TaskIds |-> NoTask]
    /\ others = <<>>
    /\ scan_reference = Reference
    /\ antivirus_enabled \in BOOLEAN
    /\ r_filename \in ReplayFileSet \cup {None}
    /\ r_pc = "start"
    /\ r_items = <<>>
    /\ r_k = 1
    /\ submitted = <<>>

\* "if filename:" ... "else: error_files = get_file_names_from_error_bucket()"
ReplayStart ==
    /\ r_pc = "start"
    /\ IF r_filename # None
       THEN /\ r_pc' = "move"
            /\ UNCHANGED r_items
       ELSE /\ r_items' = get_file_names_from_error_bucket(s3)
            /\ r_pc' = IF r_items' = <<>> THEN "done" ELSE "move"
    /\ UNCHANGED <<groupVars, taskVars, collateVars, ubu_pc, ubu_page_count,
                   antivirus_enabled, r_filename, r_k, submitted, q_groups, q_pc,
                   q_postage, q_i, q_fields, clock, print_run_deadline, proxy>>

\* move_error_pdf_to_scan_bucket: it raises when the file is not in the error
\* bucket or the store fails.
ReplayMove ==
    /\ r_pc = "move"
    /\ \E outcome \in {"ok", "raises"} :
         IF outcome = "ok" /\ <<ErrorBucket, ReplayFile>> \in s3
         THEN /\ s3' = S3Move(s3, <<ErrorBucket, ReplayFile>>,
                              <<ScanBucket, ReplayFile>>, "ok")
              /\ r_pc' = "submit"
         ELSE /\ r_pc' = "raised"
              /\ UNCHANGED s3
    /\ UNCHANGED <<groupVars, collateVars, letter_kind, notification, sanitise_data,
                   tasks, others, scan_reference, ubu_pc, ubu_page_count,
                   antivirus_enabled, r_filename, r_items, r_k, submitted, q_groups,
                   q_pc, q_postage, q_i, q_fields, clock, print_run_deadline, proxy>>

\* notify_celery.send_task(SCAN_FILE) or sanitise_letter.apply_async, then the
\* next item of the loop or the end of the command.
ReplaySubmit ==
    /\ r_pc = "submit"
    /\ \E outcome \in {"ok", "raises"} :
         IF outcome = "ok"
         THEN /\ submitted' = Append(submitted, SubmittedTask)
              /\ IF r_filename = None /\ r_k < Len(r_items)
                 THEN r_k' = r_k + 1 /\ r_pc' = "move"
                 ELSE r_pc' = "done" /\ UNCHANGED r_k
         ELSE /\ r_pc' = "raised"
              /\ UNCHANGED <<submitted, r_k>>
    /\ UNCHANGED <<groupVars, taskVars, collateVars, ubu_pc, ubu_page_count,
                   antivirus_enabled, r_filename, r_items, q_groups, q_pc,
                   q_postage, q_i, q_fields, clock, print_run_deadline, proxy>>

NextReplay ==
    \/ ReplayStart
    \/ ReplayMove
    \/ ReplaySubmit

SpecReplay == InitReplay /\ [][NextReplay]_vars

\* ------------------------------------------------------------------------
\* sanitise_letter
\* ------------------------------------------------------------------------
\* The statuses in which the scanner's callback may find the notification.
SanitisePreStatuses == {NOTIFICATION_PENDING_VIRUS_CHECK, NOTIFICATION_CREATED,
                        NOTIFICATION_TECHNICAL_FAILURE}

InitSanitise ==
    /\ GroupIdle
    /\ OpsIdle
    /\ letter_kind = "precompiled"
    /\ \E key_type \in KeyTypes, status \in SanitisePreStatuses :
         notification = [status |-> status,
                         billable_units |-> 0,
                         postage |-> "second",
                         international |-> FALSE,
                         to |-> NoAddress,
                         key_type |-> key_type]
    /\ sanitise_data = [validation_status |-> "passed", page_count |-> 3,
                        address |-> NoAddress]
    /\ s3 = {<<ScanBucket, Filename>>}
    /\ tasks = [t \in TaskIds |->
                  IF t = SanitiseId THEN Queued("sanitise-letter", 0) ELSE NoTask]
    /\ others \in {<<>>, <<notification>>}
    /\ scan_reference \in {Reference, NoSuchReference}

\* The try block up to the guard: get_reference_from_filename and
\* dao_get_notification_by_reference, which raises when the reference has no
\* notification or several, or when the store fails; then the guard on the
\* status.  seen stays None when the name notification was never assigned.
SanitiseStart(t) ==
    /\ t = SanitiseId
    /\ tasks[t].pc = "queued"
    /\ \E outcome \in {"ok", "lookup_raises"} :
         IF outcome = "ok" /\ UpdatedCount = 1
         THEN SetTask(t, [tasks[t] EXCEPT
                            !.seen = notification.status,
                            !.pc = IF notification.status # NOTIFICATION_PENDING_VIRUS_CHECK
                                   THEN "returned_noop" ELSE "send_task"])
         ELSE SetTask(t, At(t, "on_exception", {"lookup_raised"}))
    /\ UNCHANGED <<groupVars, collateVars, opsVars, letter_kind, notification, s3,
                   sanitise_data, others, scan_reference>>

\* notify_celery.send_task(name=TaskNames.SANITISE_LETTER, ...)
SanitiseSend(t) ==
    /\ t = SanitiseId
    /\ tasks[t].pc = "send_task"
    /\ \E outcome \in {"ok", "raises"} :
         SetTask(t, IF outcome = "ok" THEN At(t, "returned", {"send_task"})
                    ELSE At(t, "on_exception", {}))
    /\ UNCHANGED <<groupVars, collateVars, opsVars, letter_kind, notification, s3,
                   sanitise_data, others, scan_reference>>

\* "except Exception": the log message is formatted with notification.id
\* before self.retry is called; when notification was never assigned this
\* raises UnboundLocalError, which the inner try does not catch.
SanitiseOnException(t) ==
    /\ t = SanitiseId
    /\ tasks[t].pc = "on_exception"
    /\ IF tasks[t].seen = None
       THEN /\ SetTask(t, At(t, "raised_uncaught", {"unbound_local"}))
            /\ UNCHANGED <<groupVars, collateVars, opsVars, letter_kind, notification,
                           s3, sanitise_data, others, scan_reference>>
       ELSE OnException(t)

NextSanitise ==
    \/ SanitiseStart(SanitiseId)
    \/ SanitiseSend(SanitiseId)
    \/ SanitiseOnException(SanitiseId)

SpecSanitise == InitSanitise /\ [][NextSanitise]_vars

\* ------------------------------------------------------------------------
\* CBCProxyClientBase._invoke_lambda_with_failover
\* ------------------------------------------------------------------------
\* The client classes: their lambda_name and failover_lambda_name.
ProxyClasses ==
    {[lambda_name |-> "canary", failover_lambda_name |-> "canary"],
     [lambda_name |-> "bt-ee-1-proxy", failover_lambda_name |-> "bt-ee-2-proxy"],
     [lambda_name |-> "vodafone-1-proxy", failover_lambda_name |-> "vodafone-2-proxy"]}

\* The message_type of the payloads that the methods of a class build.
PayloadsOf(class) ==
    IF class.lambda_name = "canary" THEN {"canary"} ELSE {"test", "alert", "cancel"}

\* bytes(json.dumps(payload), encoding='utf8')
payload_bytes(payload) == <<"utf8", "json", payload>>

\* What self._lambda_client.invoke returns: a status code, the key
\* FunctionError present or not, and a Payload that is the streaming body of
\* the AWS client or a mapping with the key errorType.
StatusCodes == {200, 299, 300, 500}
PayloadKinds == {"stream", "mapping"}
Responses == [raised : {FALSE}, StatusCode : StatusCodes, FunctionError : BOOLEAN,
              Payload : PayloadKinds]

\* The client call itself raised: there is no response.
ClientError == [raised |-> TRUE, StatusCode |-> 0, FunctionError |-> FALSE,
                Payload |-> "none"]

\* _invoke_lambda after the client call: the value of success, or the error
\* that leaves the function.  The log message of the FunctionError branch
\* evaluates result['Payload']['errorType'], which raises TypeError on a
\* streaming body.
invoke_lambda(response) ==
    CASE response.raised -> "raised_client_error"
      [] response.StatusCode > 299 -> "False"
      [] response.FunctionError ->
            IF response.Payload = "mapping" THEN "False" ELSE "raised_type_error"
      [] OTHER -> "True"

Invocation(role, name, payload, response) ==
    [role |-> role, FunctionName |-> name, Payload |-> payload_bytes(payload),
     response |-> response]

InitProxy ==
    /\ GroupIdle
    /\ TasksIdle
    /\ BillIdle
    /\ ReplayIdle
    /\ SequenceIdle
    /\ ClockIdle
    /\ \E class \in ProxyClasses : \E payload \in PayloadsOf(class) :
         proxy = [pc |-> "called",
                  lambda_name |-> class.lambda_name,
                  failover_lambda_name |-> class.failover_lambda_name,
                  payload |-> payload,
                  invoked |-> <<>>]

\* result = self._invoke_lambda(self.lambda_name, payload_bytes); if not result
ProxyInvokePrimary ==
    /\ proxy.pc = "called"
    /\ \E response \in Responses \cup {ClientError} :
         LET result == invoke_lambda(response) IN
         proxy' = [proxy EXCEPT
                     !.invoked = Append(@, Invocation("primary", proxy.lambda_name,
                                                      proxy.payload, response)),
                     !.pc = CASE result = "True" -> "returned"
                              [] result = "False" -> "failover"
                              [] OTHER -> result]
    /\ UNCHANGED <<groupVars, taskVars, collateVars, ubu_pc, ubu_page_count,
                   antivirus_enabled, r_filename, r_pc, r_items, r_k, submitted,
                   q_groups, q_pc, q_postage, q_i, q_fields, clock, print_run_deadline>>

\* failover_result = self._invoke_lambda(self.failover_lambda_name, payload_bytes);
\* if not failover_result: raise CBCProxyException; return result
ProxyInvokeFailover ==
    /\ proxy.pc = "failover"
    /\ \E response \in Responses \cup {ClientError} :
         LET failover_result == invoke_lambda(response) IN
         proxy' = [proxy EXCEPT
                     !.invoked = Append(@, Invocation("failover", proxy.failover_lambda_name,
                                                      proxy.payload, response)),
                     !.pc = CASE failover_result = "True" -> "returned"
                              [] failover_result = "False" -> "raised_cbc_proxy_exception"
                              [] OTHER -> failover_result]
    /\ UNCHANGED <<groupVars, taskVars, collateVars, ubu_pc, ubu_page_count,
                   antivirus_enabled, r_filename, r_pc, r_items, r_k, submitted,
                   q_groups, q_pc, q_postage, q_i, q_fields, clock, print_run_deadline>>

NextProxy ==
    \/ ProxyInvokePrimary
    \/ ProxyInvokeFailover

SpecProxy == InitProxy /\ [][NextProxy]_vars

\* ------------------------------------------------------------------------
\* Properties of the PDF lifecycle tasks
\* ------------------------------------------------------------------------
TerminalStatuses == {NOTIFICATION_DELIVERED, NOTIFICATION_TECHNICAL_FAILURE,
                     NOTIFICATION_VALIDATION_FAILED, NOTIFICATION_VIRUS_SCAN_FAILED}
InFlightStatuses == {NOTIFICATION_PENDING_VIRUS_CHECK, NOTIFICATION_CREATED}

ScanObject == <<ScanBucket, Filename>>
InFinalArchive(objects) == \E o \in objects : o[1] \in FinalBuckets
InInvalidArchive(objects) == \E o \in objects : o[1] = InvalidBucket

\* A step of the execution of message t.
StepOf(t) == tasks'[t] # tasks[t]

\* C3: once the notification's status is terminal it is never afterwards set
\* to an in-flight status.
C3_TerminalNeverRegresses ==
    [][notification.status \in TerminalStatuses
           => notification'.status \notin InFlightStatuses]_vars

\* C4: an execution of process_sanitised_letter that loads a notification no
\* longer in pending-virus-check returns at once: the notification and the
\* object store are as they were, no retry is scheduled, and the returned
\* execution does nothing more.
C4_SecondDeliveryNoop ==
    [][\A t \in PslIds :
         /\ (/\ tasks[t].pc = "queued"
             /\ StepOf(t)
             /\ tasks'[t].pc # "raised_uncaught"
             /\ notification.status # NOTIFICATION_PENDING_VIRUS_CHECK)
            => /\ tasks'[t].pc = "returned_noop"
               /\ tasks'[t].retries = tasks[t].retries
               /\ tasks'[t].effects = {}
               /\ notification' = notification
               /\ s3' = s3
         /\ (tasks[t].pc = "returned_noop" /\ StepOf(t))
            => tasks'[t] = Queued(tasks[t].name, 0) /\ notification' = notification /\ s3' = s3
      ]_vars

\* The second delivery returned without effect after the first one had left
\* the letter ready for print.
C4_Witness ==
    /\ tasks["psl1"].pc = "returned_noop"
    /\ tasks["psl1"].retries = 0
    /\ tasks["psl1"].seen = NOTIFICATION_CREATED
    /\ notification.billable_units = 2
    /\ InFinalArchive(s3)
    /\ ScanObject \notin s3

\* No message of process_sanitised_letter is waiting or being executed.
PslFinished ==
    /\ \A t \in PslIds : tasks[t].pc \in FinalPcs
    /\ \E t \in PslIds : tasks[t].pc # "none"

\* C5: whenever the process-scan-result unit of work has finished and the
\* status is created or delivered, the letter's PDF is in final-archive.
C5_ReadyImpliesArchived ==
    (/\ letter_kind = "precompiled"
     /\ PslFinished
     /\ notification.status \in {NOTIFICATION_CREATED, NOTIFICATION_DELIVERED})
    => InFinalArchive(s3)

\* C6: an execution of process_sanitised_letter removes the scan-intake
\* original only once its own move to the destination has succeeded and the
\* destination holds the object; a step of an execution whose move has not
\* succeeded leaves the scan-intake object where it is.
C6_DeleteOnlyAfterMove ==
    [][\A t \in PslIds :
         (StepOf(t) /\ ScanObject \in s3 /\ ScanObject \notin s3')
         => /\ "move" \in tasks'[t].effects
            /\ InFinalArchive(s3') \/ InInvalidArchive(s3')
      ]_vars

\* An execution has moved the object and then deleted the original.
C6_Witness ==
    /\ {"move", "delete_scan"} \subseteq tasks["psl1"].effects
    /\ sanitise_data.validation_status = "passed"
    /\ ScanObject \notin s3
    /\ InFinalArchive(s3)

\* C7: for a callback with validation_status = failed, billable_units is 0 in
\* every state, the object is never in final-archive, and when an execution
\* has completed the validation-failed branch the object is in invalid-archive.
C7_FailedValidation ==
    (letter_kind = "precompiled" /\ sanitise_data.validation_status = "failed")
    => /\ notification.billable_units = 0
       /\ ~InFinalArchive(s3)
       /\ \A t \in PslIds : tasks[t].pc = "returned" => InInvalidArchive(s3)

C7_Witness ==
    /\ sanitise_data.validation_status = "failed"
    /\ tasks["psl1"].pc = "returned"
    /\ notification.status = NOTIFICATION_VALIDATION_FAILED
    /\ InInvalidArchive(s3)

\* C8: for a callback with validation passed, once an execution has completed
\* the validation-passed branch the object is in final-archive and not in
\* scan-intake.
C8_PassedValidation ==
    (letter_kind = "precompiled" /\ sanitise_data.validation_status = "passed")
    => \A t \in PslIds :
         tasks[t].pc = "returned" => InFinalArchive(s3) /\ ScanObject \notin s3

C8_Witness ==
    /\ sanitise_data.validation_status = "passed"
    /\ tasks["psl1"].pc = "returned"
    /\ InFinalArchive(s3)

RetryableIds == PslIds \cup {RenderId}

\* C9: a failing execution schedules a retry while the message has been
\* retried fewer than 15 times; the execution of the message retried 15 times
\* (the 16th) schedules none, sets the status to technical-failure and raises
\* the technical-failure error.
C9_RetryCap ==
    [][\A t \in RetryableIds :
         (tasks[t].pc = "on_exception" /\ StepOf(t))
         => IF tasks[t].retries < 15
            THEN tasks'[t] = Queued(tasks[t].name, tasks[t].retries + 1)
            ELSE /\ tasks[t].retries = 15
                 /\ tasks'[t].pc = "raised_technical_failure"
                 /\ tasks'[t].retries = 15
                 /\ notification'.status = NOTIFICATION_TECHNICAL_FAILURE
      ]_vars

\* The 16th execution of the render request has failed.
C9_Witness ==
    /\ tasks[RenderId].pc = "raised_technical_failure"
    /\ tasks[RenderId].retries = 15
    /\ notification.status = NOTIFICATION_TECHNICAL_FAILURE

\* C10: every exception raised in request-PDF-rendering or in
\* process-scan-result ends in a scheduled retry or in the status
\* technical-failure with the technical-failure error raised: no execution
\* ends with another exception.
C10_EveryExceptionHandled ==
    \A t \in RetryableIds : tasks[t].pc # "raised_uncaught"

\* C11: in the validation-failed branch, an execution whose move from
\* scan-intake to invalid-archive failed with a storage-layer error (its
\* handler has set technical-failure) schedules no retry: it ends by raising
\* the technical-failure error, with the status technical-failure.
C11_InvalidMoveFailureNotRetried ==
    [][\A t \in PslIds :
         (/\ tasks[t].pc = "on_exception"
          /\ "technical_failure" \in tasks[t].effects
          /\ "move" \notin tasks[t].effects
          /\ StepOf(t))
         => /\ tasks'[t].pc = "raised_technical_failure"
            /\ tasks'[t].retries = tasks[t].retries
            /\ notification'.status = NOTIFICATION_TECHNICAL_FAILURE
      ]_vars

\* C12: a step of process_virus_scan_failed / process_virus_scan_error taken
\* while the notification is no longer in pending-virus-check changes neither
\* its status nor its billable units.
C12_ScanFailureOutsidePreStateNoop ==
    [][(StepOf(ScanFailId) /\ notification.status # NOTIFICATION_PENDING_VIRUS_CHECK)
       => /\ notification'.status = notification.status
          /\ notification'.billable_units = notification.billable_units
      ]_vars

\* What an execution does to the notification and to the stored objects.
Mutations == {"update_status", "move", "delete_scan", "technical_failure"}

\* C13: of two workers holding the same scan-result callback, at most one
\* has updated the notification or copied, moved or deleted an object.
C13_AtMostOneWorkerActs ==
    Cardinality({t \in PslIds : tasks[t].effects \cap Mutations # {}}) <= 1

\* C14: once the scan-result callback has been delivered for a letter in
\* pending-virus-check, the letter eventually leaves pending-virus-check.
C14_EventuallyLeavesPending ==
    (tasks["psl1"].pc = "queued"
     /\ notification.status = NOTIFICATION_PENDING_VIRUS_CHECK)
    ~> (notification.status # NOTIFICATION_PENDING_VIRUS_CHECK)

\* The executions that end otherwise than by an exception raised before the
\* try block all leave pending-virus-check.
EndedInsideTryLeavesPending ==
    tasks["psl1"].pc \in FinalPcs \ {"none", "raised_uncaught"}
    => notification.status # NOTIFICATION_PENDING_VIRUS_CHECK

ErrorObject == <<ErrorBucket, Filename>>

\* C15: a scan-failure callback whose reference matches zero notifications,
\* or more than one, never returns normally: whenever its execution has
\* ended, it has ended by raising an error.
C15_ReferentialMismatchRaises ==
    (UpdatedCount # 1 /\ tasks[ScanFailId].pc \in FinalPcs \ {"none"})
    => tasks[ScanFailId].pc \in {"raised_uncaught", "raised_referential"}

\* The callback matched no notification, the file was moved, the update found
\* nothing to update and the task raised.
C15_Witness ==
    /\ UpdatedCount = 0
    /\ tasks[ScanFailId].pc = "raised_referential"
    /\ "move" \in tasks[ScanFailId].effects

\* The same with two notifications of the reference, both updated.
C15_WitnessMultiple ==
    /\ UpdatedCount = 2
    /\ tasks[ScanFailId].pc = "raised_referential"
    /\ "update_status" \in tasks[ScanFailId].effects

\* C16: with exactly one notification of the reference, the update of
\* process-scan-failure comes after the move to error-archive, sets
\* virus-scan-failed for a scanner rejection and technical-failure for a
\* scanner error, sets billable units to 0, and the execution then ends by
\* raising the scan-failure error; it never returns normally.
C16_ScanFailureOutcome ==
    [][/\ (/\ tasks[ScanFailId].pc = "scanfail_update"
            /\ StepOf(ScanFailId)
            /\ UpdatedCount = 1
            /\ tasks'[ScanFailId].pc # "raised_uncaught")
           => /\ ErrorObject \in s3'
              /\ ScanObject \notin s3'
              /\ "move" \in tasks[ScanFailId].effects
              /\ tasks[ScanFailId].name = "process-virus-scan-failed"
                    => notification'.status = NOTIFICATION_VIRUS_SCAN_FAILED
              /\ tasks[ScanFailId].name = "process-virus-scan-error"
                    => notification'.status = NOTIFICATION_TECHNICAL_FAILURE
              /\ notification'.billable_units = 0
              /\ tasks'[ScanFailId].pc = "raised_virus_scan_error"
       /\ tasks'[ScanFailId].pc \notin {"returned", "returned_noop"}
      ]_vars

\* A scanner rejection has been recorded and the scan-failure error raised.
C16_Witness ==
    /\ tasks[ScanFailId].pc = "raised_virus_scan_error"
    /\ tasks[ScanFailId].name = "process-virus-scan-failed"
    /\ notification.status = NOTIFICATION_VIRUS_SCAN_FAILED
    /\ notification.billable_units = 0
    /\ ErrorObject \in s3

\* C17: in the validation-passed branch an execution changes the stored
\* objects only after its status update; when the update raises, the execution
\* has copied, moved and deleted nothing, the upload is still in scan-intake,
\* the notification is as it was, and the handler schedules a retry of the
\* unit (as long as the retry cap of 15 is not reached).
C17_UpdateBeforeMove ==
    [][\A t \in PslIds :
         sanitise_data.validation_status = "passed"
         => /\ (StepOf(t) /\ s3' # s3) => "update_status" \in tasks[t].effects
            /\ (tasks[t].pc = "update" /\ StepOf(t)) => tasks[t].effects = {}
            /\ (tasks[t].pc = "update" /\ tasks'[t].pc = "on_exception")
               => /\ s3' = s3
                  /\ ScanObject \in s3'
                  /\ <<SanitiseBucket, Filename>> \in s3'
                  /\ notification' = notification
                  /\ tasks'[t].effects \cap Mutations = {}
            /\ (/\ tasks[t].pc = "on_exception"
                 /\ "update_raised" \in tasks[t].effects
                 /\ tasks[t].retries < 15
                 /\ StepOf(t))
               => /\ tasks'[t] = Queued(tasks[t].name, tasks[t].retries + 1)
                  /\ s3' = s3
                  /\ notification' = notification
      ]_vars

\* The update has raised in a retried execution, which is about to schedule
\* the next retry: the notification is still in pending-virus-check and the
\* upload in scan-intake.
C17_Witness ==
    /\ sanitise_data.validation_status = "passed"
    /\ tasks["psl1"].pc = "on_exception"
    /\ "update_raised" \in tasks["psl1"].effects
    /\ tasks["psl1"].retries = 1
    /\ notification.status = NOTIFICATION_PENDING_VIRUS_CHECK
    /\ ScanObject \in s3

\* The part of C17 that does not depend on what other tasks do to the objects.
UpdateFailureLeavesObjects ==
    [][\A t \in PslIds :
         sanitise_data.validation_status = "passed"
         => /\ (StepOf(t) /\ s3' # s3) => "update_status" \in tasks[t].effects
            /\ (tasks[t].pc = "update" /\ tasks'[t].pc = "on_exception")
               => s3' = s3 /\ notification' = notification
      ]_vars

\* C26: when process_sanitised_letter handles a passed validation, its update
\* sets the status to delivered if the notification's key type is test and to
\* created otherwise, and sets the billable units from the page count in both
\* cases.
C26_PassedSetsStatusAndUnits ==
    [][ \A t \in PslIds :
          (tasks[t].pc = "update" /\ "update_status" \in tasks'[t].effects) =>
              /\ sanitise_data.validation_status = "passed"
              /\ notification'.status =
                   IF notification.key_type = KEY_TYPE_TEST
                   THEN NOTIFICATION_DELIVERED ELSE NOTIFICATION_CREATED
              /\ notification'.billable_units =
                   get_billable_units_for_letter_page_count(sanitise_data.page_count)
              /\ notification'.key_type = notification.key_type
      ]_vars

\* The update of a test-key letter of three pages has run: delivered, two units.
C26_Witness ==
    \E t \in PslIds :
        /\ "update_status" \in tasks[t].effects
        /\ notification.key_type = KEY_TYPE_TEST
        /\ notification.status = NOTIFICATION_DELIVERED
        /\ notification.billable_units = 2
        /\ sanitise_data.page_count = 3

\* The same for a letter sent with a live key: created, two units.
PassedLiveLetterIsCreated ==
    \E t \in PslIds :
        /\ "update_status" \in tasks[t].effects
        /\ tasks[t].pc = "move"
        /\ notification.key_type = KEY_TYPE_NORMAL
        /\ notification.status = NOTIFICATION_CREATED
        /\ notification.billable_units = 2

\* C27: update_letter_pdf_status changes the notification's postage, and sets
\* the international flag, only when a recipient address is present and the
\* postage derived from it is an international class; with a domestic address
\* or none, the stored postage and international flag stay as they were.
C27_OnlyInternationalPostagePersisted ==
    [][ /\ (\/ notification'.postage # notification.postage
            \/ notification'.international # notification.international) =>
              /\ \E t \in PslIds : tasks[t].pc = "update"
              /\ sanitise_data.address # NoAddress
              /\ PostalAddressPostage(sanitise_data.address) \in INTERNATIONAL_POSTAGE_TYPES
              /\ notification'.postage = PostalAddressPostage(sanitise_data.address)
              /\ notification'.international = TRUE
        /\ \A t \in PslIds :
             (/\ tasks[t].pc = "update"
              /\ "update_status" \in tasks'[t].effects
              /\ \/ sanitise_data.address = NoAddress
                 \/ PostalAddressPostage(sanitise_data.address)
                      \notin INTERNATIONAL_POSTAGE_TYPES) =>
                /\ notification'.postage = notification.postage
                /\ notification'.international = notification.international
      ]_vars

\* The update has run with an address in France: the postage is europe and
\* the letter international.
C27_Witness ==
    \E t \in PslIds :
        /\ "update_status" \in tasks[t].effects
        /\ sanitise_data.address = "1 Rue, Paris, France"
        /\ notification.postage = "europe"
        /\ notification.international
        /\ notification.to = sanitise_data.address

\* The update has run with an address in the United Kingdom: the address is
\* stored, the postage is the one the letter had.
DomesticAddressKeepsPostage ==
    \E t \in PslIds :
        /\ "update_status" \in tasks[t].effects
        /\ sanitise_data.address = "1 Street, London, SW1 1AA"
        /\ notification.to = sanitise_data.address
        /\ notification.postage = "second"
        /\ ~notification.international

\* C28: update_billable_units_for_letter leaves a test-key notification
\* completely unchanged, and for any other key type sets billable_units to the
\* mapped value of the page count and changes nothing else, the status in
\* particular.
C28_BillableUnitsOnly ==
    [][ ubu_pc' # ubu_pc =>
          /\ notification.key_type = KEY_TYPE_TEST => notification' = notification
          /\ (notification.key_type # KEY_TYPE_TEST /\ ubu_pc' = "done") =>
               /\ notification'.billable_units =
                    get_billable_units_for_letter_page_count(ubu_page_count)
               /\ \A f \in DOMAIN notification \ {"billable_units"} :
                    notification'[f] = notification[f]
          /\ ubu_pc' = "raised" => notification' = notification
          /\ UNCHANGED <<s3, others>>
      ]_vars

\* The task has run for a letter of three pages sent with a live key that waits
\* for its virus scan: two billable units, the same status.
C28_Witness ==
    /\ ubu_pc = "done"
    /\ ubu_page_count = 3
    /\ notification.key_type = KEY_TYPE_NORMAL
    /\ notification.status = NOTIFICATION_PENDING_VIRUS_CHECK
    /\ notification.billable_units = 2

\* The task has run for a letter sent with a test key: the units are not those
\* of the page count.
TestKeyNotBilled ==
    /\ ubu_pc = "done"
    /\ notification.key_type = KEY_TYPE_TEST
    /\ notification.billable_units
         # get_billable_units_for_letter_page_count(ubu_page_count)

\* The file names that the tasks submitted so far carry.
SubmittedFor(file) == {k \in 1..Len(submitted) : submitted[k].filename = file}

\* The files the command has to replay: the one named, or those listed.
FilesToReplay ==
    IF r_filename # None THEN {r_filename}
    ELSE {r_items[k].key[2] : k \in 1..Len(r_items)}

\* C29: for every file replayed by replay_letters_in_error, in single-file
\* and in all-files mode, with the scanner enabled or disabled, the file is
\* first moved from the error bucket to scan-intake and then exactly one task
\* is submitted that names that same file: to the scanner queue when enabled,
\* to the sanitise step when disabled.
C29_ReplaySubmitsMovedFile ==
    [][ /\ Len(submitted') > Len(submitted) =>
            LET e == submitted'[Len(submitted')]
                file == IF r_filename # None THEN r_filename ELSE r_items[r_k].key[2]
            IN /\ Len(submitted') = Len(submitted) + 1
               /\ <<ScanBucket, file>> \in s3
               /\ <<ErrorBucket, file>> \notin s3
               /\ e.filename = file
               /\ e.task = IF antivirus_enabled THEN SCAN_FILE ELSE SANITISE_LETTER
               /\ SubmittedFor(file) = {}
        /\ r_pc' = "done" =>
            \A file \in FilesToReplay : Cardinality(SubmittedFor(file)')  = 1
      ]_vars

\* The same for the calls in which the code names the moved file: the scanner
\* is enabled, or one file is named.
ReplayWithScannerOrOneFile ==
    [][ (antivirus_enabled \/ r_filename # None) =>
          /\ Len(submitted') > Len(submitted) =>
               LET e == submitted'[Len(submitted')]
                   file == IF r_filename # None THEN r_filename ELSE r_items[r_k].key[2]
               IN /\ <<ScanBucket, file>> \in s3
                  /\ <<ErrorBucket, file>> \notin s3
                  /\ e.filename = file
                  /\ e.task = IF antivirus_enabled THEN SCAN_FILE ELSE SANITISE_LETTER
                  /\ SubmittedFor(file) = {}
          /\ r_pc' = "done" =>
               \A file \in FilesToReplay : Cardinality(SubmittedFor(file)') = 1
      ]_vars

\* All files were replayed with the scanner disabled: every file is in
\* scan-intake and no task names any of them.
ReplayedWithoutName ==
    /\ r_pc = "done"
    /\ r_filename = None
    /\ ~antivirus_enabled
    /\ Len(r_items) = 2
    /\ \A file \in FilesToReplay :
         /\ <<ScanBucket, file>> \in s3
         /\ SubmittedFor(file) = {}
    /\ \A k \in 1..Len(submitted) : submitted[k].filename = None

\* The key that get_key_and_size_of_letters_to_be_sent_to_print computes for
\* the notification from the stored row, and the object it looks up.
RecomputedObject == <<LettersPdfBucket, get_letter_pdf_filename(notification.postage)>>

\* C30: for a letter that process_sanitised_letter has left in created status,
\* the key recomputed from the stored notification (its reference, crown flag,
\* creation time and stored postage) is the key under which the task placed
\* the PDF in the final archive, also when the same execution changed the
\* postage to an international class.
C30_RecomputedKeyFindsPdf ==
    \A t \in PslIds :
        (/\ "move" \in tasks[t].effects
         /\ notification.status = NOTIFICATION_CREATED) =>
            /\ RecomputedObject \in s3
            /\ \A o \in s3 : o[1] = LettersPdfBucket => o = RecomputedObject

\* The execution has stored the postage europe for an address in France and
\* has left the letter in created status with its PDF under the europe key.
C30_Witness ==
    \E t \in PslIds :
        /\ "move" \in tasks[t].effects
        /\ "update_status" \in tasks[t].effects
        /\ notification.status = NOTIFICATION_CREATED
        /\ notification.postage = "europe"
        /\ sanitise_data.address = "1 Rue, Paris, France"
        /\ <<LettersPdfBucket, "NOTIFY.REF.D.E.C.20200101.PDF">> \in s3

BotoErrorAfterMove ==
    \E t \in PslIds :
        /\ tasks[t].pc = "raised_technical_failure"
        /\ {"update_status", "move", "boto_error"} \subseteq tasks[t].effects
        /\ notification.status = NOTIFICATION_TECHNICAL_FAILURE
        /\ InFinalArchive(s3)

\* What the retry path does with a failed execution of message t.
RetryPathTaken(t) ==
    IF tasks[t].retries >= 15
    THEN /\ notification'.status = NOTIFICATION_TECHNICAL_FAILURE
         /\ tasks'[t].pc = "raised_technical_failure"
    ELSE tasks'[t] = Queued(tasks[t].name, tasks[t].retries + 1)

\* C33: when sanitise_letter fails before the notification has been loaded
\* (the reference lookup raises), the retry path still handles the failure: a
\* retry is scheduled, and on retry exhaustion the status is set to
\* technical-failure and the technical-failure error is raised.
C33_LookupFailureIsRetried ==
    [][ (/\ tasks[SanitiseId].pc = "on_exception"
         /\ "lookup_raised" \in tasks[SanitiseId].effects
         /\ StepOf(SanitiseId)) => RetryPathTaken(SanitiseId)
      ]_vars

\* The retry path does handle a failure after the notification was loaded.
LaterFailureIsRetried ==
    [][ (/\ tasks[SanitiseId].pc = "on_exception"
         /\ "lookup_raised" \notin tasks[SanitiseId].effects
         /\ StepOf(SanitiseId)) => RetryPathTaken(SanitiseId)
      ]_vars

\* The lookup raised and the execution has ended with another error, no retry
\* scheduled and the notification still waiting for its scan.
LookupFailureEndsTask ==
    /\ tasks[SanitiseId].pc = "raised_uncaught"
    /\ "lookup_raised" \in tasks[SanitiseId].effects
    /\ tasks[SanitiseId].retries = 0
    /\ notification.status = NOTIFICATION_PENDING_VIRUS_CHECK

\* Sixteen executions failed at send_task: the status is technical-failure.
SendFailureExhausted ==
    /\ tasks[SanitiseId].pc = "raised_technical_failure"
    /\ tasks[SanitiseId].retries = 15
    /\ notification.status = NOTIFICATION_TECHNICAL_FAILURE

\* The execution of a scan-failure task ends at the lookup (it raised) or at
\* the check that exactly one notification was updated.
ScanFailLookupOrCheckFails ==
    /\ tasks[ScanFailId].pc = "scanfail_update"
    /\ StepOf(ScanFailId)
    /\ tasks'[ScanFailId].pc \in {"raised_uncaught", "raised_referential"}

\* The file has left scan-intake for error-archive before the lookup.
ScanFailFileAlreadyMoved ==
    /\ "move" \in tasks[ScanFailId].effects
    /\ ScanObject \notin s3 /\ ErrorObject \in s3
    /\ s3' = s3

\* The status that would record the failure of the scan.
ScanFailRecorded(row, name) ==
    /\ name = "process-virus-scan-failed" => row.status = NOTIFICATION_VIRUS_SCAN_FAILED
    /\ name = "process-virus-scan-error" => row.status = NOTIFICATION_TECHNICAL_FAILURE
    /\ row.billable_units = 0

ScanFailLookupRaisedAfterMove ==
    /\ tasks[ScanFailId].pc = "raised_uncaught"
    /\ "move" \in tasks[ScanFailId].effects
    /\ ErrorObject \in s3
    /\ notification.status = NOTIFICATION_PENDING_VIRUS_CHECK

\* ------------------------------------------------------------------------
\* Properties of collate_letter_pdfs_to_be_sent
\* ------------------------------------------------------------------------
\* Letters of a later postage class are waiting.
LaterClassesWaiting ==
    \E q \in PostageIndexes : q > c_postage /\ letters_awaiting_sending[q] # <<>>

\* C18: a failure to emit the task of one group does not end the run while
\* groups of that postage class remain to be yielded or letters of later
\* postage classes are waiting.
C18_EmissionFailureIsolated ==
    c_pc = "raised_send_task" => (g_pc = "done" /\ ~LaterClassesWaiting)

\* The letters whose lookup succeeded, in the order of rows.
KeptLetters(rows, heads) ==
    LET ok == {k \in 1..Len(rows) : heads[k] = "ok"}
        nth(j) == CHOOSE k \in ok : Cardinality({i \in ok : i <= k}) = j
    IN [j \in 1..Cardinality(ok) |->
          [Key |-> rows[nth(j)].Key, Size |-> rows[nth(j)].Size,
           ServiceId |-> rows[nth(j)].ServiceId]]

\* C19: when the lookups of a postage class fail only with storage errors,
\* the letters returned are exactly those whose lookup succeeded, in their
\* original order, the run goes on to group them, and no notification has
\* changed.
C19_HeadFailureSkipsOneLetter ==
    [][(c_pc = "fetch" /\ c_pc' # "fetch")
       => /\ letters_awaiting_sending' = letters_awaiting_sending
          /\ (\A k \in 1..Len(c_heads') : c_heads'[k] \in {"ok", "boto"})
             => /\ c_pc' = "group"
                /\ letter_pdfs' = KeptLetters(letters_awaiting_sending[c_postage], c_heads')
      ]_vars

\* The lookup of the first of two letters failed with a storage error and the
\* second letter alone goes on to be grouped.
C19_Witness ==
    /\ c_pc = "group"
    /\ Len(c_heads) = 2
    /\ c_heads[1] = "boto"
    /\ c_heads[2] = "ok"
    /\ Len(letter_pdfs) = 1
    /\ letter_pdfs[1].Key = letters_awaiting_sending[c_postage][2].Key
    /\ letters_awaiting_sending[c_postage][1].status = NOTIFICATION_CREATED

\* C20: two completed passes over the same ordered list of letters of a
\* postage class, with the same configuration and the same print-run date,
\* have produced the same groups and the same archive filenames.
C20_BatchDeterministic ==
    \A h1, h2 \in history :
        (/\ h1.postage = h2.postage
         /\ h1.date = h2.date
         /\ h1.letter_pdfs = h2.letter_pdfs)
        => /\ h1.groups = h2.groups
           /\ h1.filenames = h2.filenames

\* Both runs have completed a pass over the same letters, which made two
\* groups, the second run at another time of the same print-run date.
C20_Witness ==
    \E h1, h2 \in history :
        /\ h1.run = 1
        /\ h2.run = 2
        /\ h1.postage = h2.postage
        /\ h1.date = h2.date
        /\ h1.letter_pdfs = h2.letter_pdfs
        /\ Len(h1.groups) = 2
        /\ Len(h2.filenames) = 2

\* Every letter awaiting sending, of any postage class.
AllAwaiting ==
    UNION {{letters_awaiting_sending[p][k] : k \in 1..Len(letters_awaiting_sending[p])} :
           p \in PostageIndexes}

\* The letters whose PDFs a manifest lists.
ManifestLetters(m) ==
    {row \in AllAwaiting :
        \E k \in 1..Len(m.filenames_to_zip) : m.filenames_to_zip[k] = row.Key}

\* C22: every emitted manifest lists letters of exactly one service and one
\* postage class, and the service id and the postage code in its file name are
\* those of its letters.
C22_ManifestOneServiceOnePostage ==
    \A n \in 1..Len(sent) :
        LET m == sent[n] IN
        /\ Cardinality(ManifestLetters(m)) = Len(m.filenames_to_zip)
        /\ Cardinality({row.ServiceId : row \in ManifestLetters(m)}) = 1
        /\ Cardinality({row.postage : row \in ManifestLetters(m)}) = 1
        /\ \A row \in ManifestLetters(m) :
             /\ m.upload_filename[6] = row.ServiceId
             /\ m.upload_filename[3] = RESOLVE_POSTAGE_FOR_FILE_NAME(row.postage)

\* One run has emitted manifests for two services of one postage class and a
\* manifest of the other class.
C22_Witness ==
    \E j, k, n \in 1..Len(sent) :
        /\ sent[j].postage = sent[k].postage
        /\ sent[j].upload_filename[6] # sent[k].upload_filename[6]
        /\ sent[n].postage # sent[j].postage
        /\ sent[n].upload_filename[3] # sent[j].upload_filename[3]

\* int(text) of a sequence of decimal digits.
RECURSIVE DecimalValue(_)
DecimalValue(digits) ==
    IF digits = <<>> THEN 0
    ELSE 10 * DecimalValue(SubSeq(digits, 1, Len(digits) - 1))
         + (CHOOSE d \in 0..9 : DigitChars[d + 1] = digits[Len(digits)])

\* C23: within a run, the names built for a postage class carry the sequence
\* numbers 1, 2, 3, ... in order, from 1 again for each class, and the
\* sequence field is always exactly three digits.
C23_SequenceThreeDigits ==
    \A k \in 1..Len(q_fields) :
        /\ DecimalValue(q_fields[k]) = k
        /\ Len(q_fields[k]) = 3

\* The numbering alone, without the width of the field.
SequenceNumbersConsecutive ==
    \A k \in 1..Len(q_fields) : DecimalValue(q_fields[k]) = k

\* The manifests a run has emitted for a postage class carry 001, 002, ...
EmittedSequenceNumbers ==
    \A p \in PostageIndexes :
        LET mine == SelectSeq(sent, LAMBDA m : m.postage = POSTAGE_TYPES[p])
        IN \A k \in 1..Len(mine) :
             /\ DecimalValue(mine[k].upload_filename[4]) = k
             /\ Len(mine[k].upload_filename[4]) = 3

\* The pass over the current postage class has ended: the class is exhausted,
\* or an exception has left the task.
PassEnded ==
    \/ c_pc \in CollateEnded
    \/ c_pc = "group" /\ g_pc = "done" /\ Len(yielded) = c_emitted

\* No call to the object store or to the queue has raised in the run.
NoCallRaised == c_pc \notin {"raised_head", "raised_send_task"}

\* The manifests of the run that list a key.
ManifestsListing(key) ==
    {n \in 1..Len(sent) :
        \E k \in 1..Len(sent[n].filenames_to_zip) : sent[n].filenames_to_zip[k] = key}

\* C24: every letter listed in a manifest of a run is in created status and of
\* the manifest's postage class, and every letter of a class whose PDF size
\* lookup succeeded is listed in exactly one manifest of the run (stated here
\* for the runs in which no call to the object store or to the queue raised).
C24_LookedUpLettersInOneManifest ==
    /\ \A n \in 1..Len(sent) : \A row \in ManifestLetters(sent[n]) :
         /\ row.status = NOTIFICATION_CREATED
         /\ row.postage = sent[n].postage
    /\ (PassEnded /\ NoCallRaised) =>
         \A k \in 1..Len(letter_pdfs) :
             Cardinality(ManifestsListing(letter_pdfs[k].Key)) = 1

\* What holds of it: a manifest lists only created letters of its class, no
\* letter is listed twice, and a run that reaches its end has listed every
\* letter whose lookup succeeded.
ManifestMembership ==
    /\ \A n \in 1..Len(sent) : \A row \in ManifestLetters(sent[n]) :
         /\ row.status = NOTIFICATION_CREATED
         /\ row.postage = sent[n].postage
    /\ \A row \in AllAwaiting : Cardinality(ManifestsListing(row.Key)) <= 1
    /\ (PassEnded /\ c_pc \notin CollateEnded \ {"done"}) =>
         \A k \in 1..Len(letter_pdfs) :
             Cardinality(ManifestsListing(letter_pdfs[k].Key)) = 1

\* The instant of a naive local date and time (unambiguous for 17:30).
LocalToUtc(local) ==
    LET m == local.day * DayMinutes + local.minute
    IN IF BstOffset(m) = 0 THEN m ELSE m - 60

\* The local date and time of the run, on the local clock.
RunLocal == convert_utc_to_bst(clock)

\* The deadline is 17:30 of the run's local date when the run is at or after
\* 17:30 local time, and 17:30 of the day before otherwise.
CutoffIsLocalDeadline ==
    /\ print_run_deadline.minute = 17 * 60 + 30
    /\ print_run_deadline.day =
         IF RunLocal.minute >= 17 * 60 + 30 THEN RunLocal.day ELSE RunLocal.day - 1

\* The time from the deadline to the run: elapsed, and read off the local clock.
ElapsedSinceCutoff == clock - LocalToUtc(print_run_deadline)
LocalClockSinceCutoff ==
    (RunLocal.day - print_run_deadline.day) * DayMinutes
    + RunLocal.minute - print_run_deadline.minute

\* C25 as stated: the print-run cutoff is 17:30 local time of the run's local
\* date when the run is at or after the deadline and 17:30 of the previous
\* local date when it is before; it is never later than the run time and is
\* less than 24 hours before it.
C25_CutoffWithin24Hours ==
    print_run_deadline # NoDeadline =>
        /\ CutoffIsLocalDeadline
        /\ ElapsedSinceCutoff >= 0
        /\ ElapsedSinceCutoff < 24 * 60

\* C25, amended: the same cutoff; it is never later than the run time, less
\* than 24 hours before it on the local clock, and less than 25 hours before it
\* in elapsed time (more than 24 only across the night the clocks go back).
C25_CutoffWithin24LocalHours ==
    print_run_deadline # NoDeadline =>
        /\ CutoffIsLocalDeadline
        /\ ElapsedSinceCutoff >= 0
        /\ LocalClockSinceCutoff >= 0
        /\ LocalClockSinceCutoff < 24 * 60
        /\ ElapsedSinceCutoff < 25 * 60
        /\ ElapsedSinceCutoff >= 24 * 60 =>
             BstOffset(LocalToUtc(print_run_deadline)) > BstOffset(clock)

\* A run before 17:30 local time on the day the clocks went back: its cutoff is
\* 17:30 of the day before, which is 24 hours or more ago.
C25_Witness ==
    /\ print_run_deadline # NoDeadline
    /\ RunLocal.minute < 17 * 60 + 30
    /\ print_run_deadline.day = RunLocal.day - 1
    /\ ElapsedSinceCutoff >= 24 * 60

\* A run at 17:30 local time exactly takes the cutoff of its own day.
RunAtTheDeadline ==
    /\ print_run_deadline # NoDeadline
    /\ RunLocal.minute = 17 * 60 + 30
    /\ ElapsedSinceCutoff = 0

\* C35: within one collation run the archive filenames of the emitted
\* manifests are pairwise distinct, across the groups of one postage class and
\* across postage classes.
C35_ArchiveFilenamesDistinct ==
    \A j, k \in 1..Len(sent) :
        j # k => sent[j].upload_filename # sent[k].upload_filename

\* A finished run that emitted two manifests of one postage class, for the
\* same service on the same print-run date, and one of another class.
C35_Witness ==
    /\ c_pc = "done"
    /\ Len(sent) = 3
    /\ sent[1].postage = sent[2].postage
    /\ sent[3].postage # sent[1].postage
    /\ sent[1].upload_filename[6] = sent[2].upload_filename[6]
    /\ sent[1].upload_filename[4] # sent[2].upload_filename[4]
    /\ sent[1].upload_filename[4] = sent[3].upload_filename[4]

\* The index of a postage class in the loop of the task.
PostageIndexOf(postage) == CHOOSE p \in PostageIndexes : POSTAGE_TYPES[p] = postage

\* Every storage lookup of the pass succeeded: each letter selected for the
\* class is in letters_to_print.
AllLookedUp(h) ==
    Len(h.letter_pdfs) = Len(letters_awaiting_sending[PostageIndexOf(h.postage)])

\* C36: no step of a collation run changes a notification (status, postage,
\* billable units), a stored object or the letters awaiting sending; so two
\* runs in the same window whose storage lookups succeed have selected the
\* same letters of a class and emitted manifests with the same archive
\* filenames.
C36_RunChangesNothing ==
    [][ /\ notification' = notification
        /\ others' = others
        /\ s3' = s3
        /\ letters_awaiting_sending' = letters_awaiting_sending
        /\ \A h1, h2 \in history' :
             (/\ h1.run # h2.run
              /\ h1.postage = h2.postage
              /\ h1.date = h2.date
              /\ AllLookedUp(h1) /\ AllLookedUp(h2))
             => /\ h1.letter_pdfs = h2.letter_pdfs
                /\ h1.filenames = h2.filenames
      ]_vars

\* The second run has ended, in the same window as the first; both collated the two letters of the first class, which are still
\* awaiting sending in created status, and emitted a manifest.
C36_Witness ==
    /\ c_run = 2
    /\ c_pc = "done"
    /\ Len(letters_awaiting_sending[1]) = 2
    /\ \A k \in 1..2 : letters_awaiting_sending[1][k].status = NOTIFICATION_CREATED
    /\ \E h1, h2 \in history :
         /\ h1.run = 1 /\ h2.run = 2
         /\ h1.postage = POSTAGE_TYPES[1] /\ h2.postage = POSTAGE_TYPES[1]
         /\ h1.date = h2.date
         /\ PrintRunDate(utcnow) = h1.date
         /\ AllLookedUp(h1) /\ AllLookedUp(h2)
         /\ Len(h1.filenames) >= 1
         /\ h2.filenames = h1.filenames

\* ------------------------------------------------------------------------
\* Properties of group_letters
\* ------------------------------------------------------------------------
GroupServices(group) == {group[k].ServiceId : k \in 1..Len(group)}

GroupWithinLimits(group) ==
    /\ \/ SumSizes(group) <= max_filesize
       \/ Len(group) = 1 /\ group[1].Size > max_filesize
    /\ Len(group) <= max_count

\* C1: every group yielded by group_letters has a total size <= the maximum
\* size or is exactly one letter that alone exceeds it, has at most the
\* maximum count of members, and contains letters of exactly one service.
C1_GroupsBounded ==
    \A k \in 1..Len(yielded) :
        /\ GroupWithinLimits(yielded[k])
        /\ Cardinality(GroupServices(yielded[k])) = 1

\* C2: group_letters never yields an empty group, so the consumer's
\* letters[0]['ServiceId'] is always defined.
C2_NoEmptyGroup ==
    \A k \in 1..Len(yielded) : yielded[k] # <<>>

\* The limits and the single-service property on the groups that are not empty.
NonEmptyGroupsBounded ==
    \A k \in 1..Len(yielded) :
        /\ GroupWithinLimits(yielded[k])
        /\ Cardinality(GroupServices(yielded[k])) <= 1

\* C21: group_letters packs greedily in input order: at a letter that finds a
\* running group, the group is closed and a new one started exactly when adding
\* the letter would exceed the maximum size, or the group already holds the
\* maximum count, or the letter is of another service than the group; otherwise
\* the letter joins the group.  Sizes 10, 10, 5 of one service under a cap of
\* 20 give [10, 10] and [5], and a following 5 of another service starts a new
\* group.
C21_GreedyPacking ==
    [][ /\ (GroupAddLetter /\ list_of_files # <<>>) =>
            LET letter == letter_pdfs[g_i]
                exceeds == SumSizes(list_of_files) + letter.Size > max_filesize
                full == Len(list_of_files) >= max_count
                foreign == letter.ServiceId # list_of_files[1].ServiceId
            IN IF exceeds \/ full \/ foreign
               THEN /\ yielded' = Append(yielded, list_of_files)
                    /\ list_of_files' = <<letter>>
               ELSE /\ yielded' = yielded
                    /\ list_of_files' = Append(list_of_files, letter)
        /\ (GroupFinish /\ letter_pdfs = ExampleLetters /\ max_filesize = 20) =>
            yielded' = << SubSeq(ExampleLetters, 1, 2),
                          SubSeq(ExampleLetters, 3, 3),
                          SubSeq(ExampleLetters, 4, 4) >>
      ]_vars

\* group_letters has finished on the example, and the letter of the other
\* service is alone in the last group although it would fit the one before.
C21_Witness ==
    /\ g_pc = "done"
    /\ letter_pdfs = ExampleLetters
    /\ Len(yielded) = 3
    /\ yielded[2] = <<ExampleLetters[3]>>
    /\ yielded[3] = <<ExampleLetters[4]>>
    /\ SumSizes(yielded[2]) + ExampleLetters[4].Size <= max_filesize

\* The groups one after the other.
RECURSIVE Flatten(_)
Flatten(groups) ==
    IF groups = <<>> THEN <<>> ELSE Head(groups) \o Flatten(Tail(groups))

\* The key ends in .pdf, in any mix of upper and lower case.
EndsInPdf(key) ==
    /\ Len(key) >= 4
    /\ key[Len(key) - 3] = "."
    /\ key[Len(key) - 2] \in {"p", "P"}
    /\ key[Len(key) - 1] \in {"d", "D"}
    /\ key[Len(key)] \in {"f", "F"}

\* C32: group_letters neither loses, duplicates nor reorders letters: the
\* yielded groups, one after the other in the order they were yielded, are
\* exactly the entries of the input whose key ends in .pdf (in any case), in
\* the order of the input.
C32_GroupsPartitionInput ==
    /\ g_pc = "loop" =>
         Flatten(yielded) \o list_of_files =
             SelectSeq(SubSeq(letter_pdfs, 1, g_i - 1), LAMBDA l : EndsInPdf(l.Key))
    /\ g_pc = "done" =>
         Flatten(yielded) = SelectSeq(letter_pdfs, LAMBDA l : EndsInPdf(l.Key))

\* group_letters has ended on three entries, one that is not a PDF between a
\* key in mixed case and another PDF, which it yielded in two groups.
C32_Witness ==
    /\ g_pc = "done"
    /\ Len(letter_pdfs) = 3
    /\ letter_pdfs[1].Key = KeyPdfMixed
    /\ ~EndsInPdf(letter_pdfs[2].Key)
    /\ EndsInPdf(letter_pdfs[3].Key)
    /\ Len(yielded) = 2
    /\ Flatten(yielded) = <<letter_pdfs[1], letter_pdfs[3]>>

\* The only empty group is the first one, yielded before an oversized first letter.
EmptyGroupOnlyFirst ==
    \A k \in 1..Len(yielded) :
        yielded[k] = <<>> =>
            /\ k = 1
            /\ \E j \in 1..Len(letter_pdfs) :
                 /\ IsPdfKey(letter_pdfs[j].Key)
                 /\ letter_pdfs[j].Size > max_filesize
                 /\ \A h \in 1..(j - 1) : ~IsPdfKey(letter_pdfs[h].Key)
\* ------------------------------------------------------------------------
\* Properties of the cell broadcast proxy client
\* ------------------------------------------------------------------------
ProxyEnded == proxy.pc \in {"returned", "raised_cbc_proxy_exception",
                            "raised_type_error", "raised_client_error"}

\* The invocations of the call in a role.
InvocationsAs(role) ==
    {k \in 1..Len(proxy.invoked) : proxy.invoked[k].role = role}

\* The lambda answered, and its answer reports an error.
Unsuccessful(response) ==
    /\ ~response.raised
    /\ response.StatusCode > 299 \/ response.FunctionError

\* The client returned a response for every invocation of the call.
EveryInvocationAnswered ==
    \A k \in 1..Len(proxy.invoked) : ~proxy.invoked[k].response.raised

PrimaryUnsuccessful ==
    \E k \in InvocationsAs("primary") : Unsuccessful(proxy.invoked[k].response)

FailoverUnsuccessful ==
    \E k \in InvocationsAs("failover") : Unsuccessful(proxy.invoked[k].response)

\* C37: a call of _invoke_lambda_with_failover whose invocations were answered
\* invokes the failover lambda if and only if the primary invocation was
\* unsuccessful, makes each of the two invocations at most once, and raises
\* CBCProxyException if and only if both invocations were unsuccessful.
C37_FailoverIffPrimaryUnsuccessful ==
    (ProxyEnded /\ EveryInvocationAnswered) =>
        /\ InvocationsAs("failover") # {} <=> PrimaryUnsuccessful
        /\ Cardinality(InvocationsAs("primary")) <= 1
        /\ Cardinality(InvocationsAs("failover")) <= 1
        /\ proxy.pc = "raised_cbc_proxy_exception"
              <=> (PrimaryUnsuccessful /\ FailoverUnsuccessful)

\* No answer of the call carries FunctionError with a streaming body.
NoFunctionErrorStream ==
    \A k \in 1..Len(proxy.invoked) :
        ~(proxy.invoked[k].response.FunctionError
          /\ proxy.invoked[k].response.Payload = "stream")

\* The same holds of the calls in which no FunctionError answer has a
\* streaming body as its Payload.
FailoverIffPrimaryUnsuccessful_ReadablePayload ==
    (ProxyEnded /\ EveryInvocationAnswered /\ NoFunctionErrorStream) =>
        /\ InvocationsAs("failover") # {} <=> PrimaryUnsuccessful
        /\ Cardinality(InvocationsAs("primary")) <= 1
        /\ Cardinality(InvocationsAs("failover")) <= 1
        /\ proxy.pc = "raised_cbc_proxy_exception"
              <=> (PrimaryUnsuccessful /\ FailoverUnsuccessful)

\* The primary lambda answered with FunctionError: the call has ended with a
\* TypeError, the failover lambda not invoked.
FunctionErrorEndsCall ==
    /\ proxy.pc = "raised_type_error"
    /\ Len(proxy.invoked) = 1
    /\ proxy.invoked[1].response.FunctionError
    /\ proxy.invoked[1].response.StatusCode = 200

\* Both lambdas answered with a status code above 299: CBCProxyException.
BothUnsuccessfulRaises ==
    /\ proxy.pc = "raised_cbc_proxy_exception"
    /\ Len(proxy.invoked) = 2
    /\ proxy.invoked[1].FunctionName # proxy.invoked[2].FunctionName

====
